---- MODULE Spec2Model ----
(***************************************************************************)
(* Verification model of the xiaohongshu browsing automation:              *)
(*   - browser.Manager: the mutex + condition variable lease on the shared *)
(*     browser (AcquireBrowser and the release function it returns);       *)
(*   - the ten-times campaign engine of xiaohongshu/browse.go              *)
(*     (tenTimesManager, processTenTimesIfNeeded,                          *)
(*     executeTenInteractionStep, saveState / writeFileAtomic,             *)
(*     appendCompleted, newTenTimesManager), run by the sessions that      *)
(*     recommendation.RunParallelBrowse starts.                            *)
(***************************************************************************)
EXTENDS Integers, Sequences, FiniteSets, TLC

(***************************************************************************)
(* Bounds of the model.                                                    *)
(***************************************************************************)
NumCallers == 3      \* concurrent AcquireBrowser calls
NumFeeds == 2        \* distinct notes of the feed, one engine
ParInstances == 2    \* instances of RunParallelBrowse
ParFeeds == 1        \* distinct notes of the feed, parallel engines
MaxFeedList == 3     \* length of the feed list selectFeedForClick reads
MaxCards == 1        \* visible note cards when a note is clicked
MaxViewed == 2       \* cap of the length of stats.ViewedNotes
StatsFeedList == 2   \* length of the feed list where the opened notes are logged
OrchInstances == 3   \* largest instance count asked of RunParallelBrowse
MaxProgress == 1     \* largest ScrollCount a StartBrowse of an instance reports
MinScrolls == 1      \* config.MinScrolls of the session
MaxScrolls == 2      \* config.MaxScrolls of the session
MaxScrollCount == 2  \* cap of stats.ScrollCount in one session
MaxCfgScrolls == 4   \* largest min_scrolls / max_scrolls a caller passes
MaxUrlAtoms == 2     \* pieces in the id, the token and the rest of a URL
ForceFeeds == 1      \* distinct notes of the feed, force-all run
HistFeeds == 1       \* distinct notes of the feed, misses recorded
RunFeeds == 1        \* distinct notes of the feed, session with rounds

(***************************************************************************)
(* Program constants.                                                      *)
(***************************************************************************)
TenThreshold == 10
NotVisibleLimit == 6
DefaultInstances == 3
DefaultMinScrollsPerRound == 1
DefaultMaxScrollsPerRound == 3

VARIABLES
    \* ---- browser.Manager ----
    mu,                 \* holder of Manager.mu (0: unlocked)
    inUse,              \* Manager.inUse
    browser,            \* Manager.browser # nil
    gpc,                \* position of every AcquireBrowser caller
    barged,             \* history: a woken waiter found inUse set again
    \* ---- configuration of a run ----
    insts,              \* the instances RunParallelBrowse starts
    feeds,              \* the notes the recommendation page can show
    uiFaults,           \* the page may hide a card, its author or fail to open
    timesFile,          \* ten_times<suffix>.txt, by path
    logMisses,          \* the history of misses and abandonments is kept
    forceAll,           \* tenTimesManager.forceAll (TEN_TIMES_FORCE_ALL is on)
    \* ---- tenTimesManager of every instance ----
    pc,                 \* position of the instance's session
    state,              \* tenTimesManager.state
    completed,          \* tenTimesManager.completed
    active,             \* tenTimesManager.active
    activeNotVisible,   \* tenTimesManager.activeNotVisible
    queue,              \* tenTimesManager.queue
    enqueued,           \* tenTimesManager.enqueued
    fdAt,               \* where the file an instance is writing is linked
    \* ---- files, by path ----
    stateFile,          \* ten_state<suffix>.json
    tmpFile,            \* ten_state<suffix>.json.tmp
    completedFile,      \* ten_completed<suffix>.txt
    \* ---- history ----
    doneBefore,         \* notes whose count reached 10 in an ended session
    loadedDone,         \* notes the state loaded at start-up had as done
    scannedDone,        \* notes a scan of the session met when already done
    missLog,            \* steps without interaction on the item since activation
    abandoned,          \* notes the session gave up as active item
    opened,             \* the last engine step: count at opening, like+save
    runStarted,         \* the process has created a BrowseAction
    discovered,         \* ids the last scan enqueued, in the order of the cards
    lastScan,           \* force-all run: the cards the last scan went through
    \* ---- selectFeedForClick ----
    feedList,           \* the feeds getFeedsFromPage returns (their ids)
    viewed,             \* stats.viewedSet
    selectedFeed,       \* the feed selectFeedForClick returned
    selErr,             \* selectFeedForClick returned an error
    spc,                \* position of the click flow
    stats,              \* the BrowseStats of the session (click and like counts)
    lastOpen,           \* history: the note opened since the last selection
    logOpens,           \* the history of opened notes is kept
    \* ---- RunParallelBrowse ----
    requested,          \* the `instances` argument
    mpc,                \* position of RunParallelBrowse itself
    spawned,            \* goroutines started so far by the loop
    opc,                \* position of the goroutine of every instance
    results,            \* the results slice
    wg,                 \* the WaitGroup counter
    ctxDone,            \* ctx is cancelled
    loginDone,          \* loginCtx is done (60 s passed, or ctx cancelled)
    ret,                \* what RunParallelBrowse returned
    browsed,            \* history: what StartBrowse of the instance returned
    panicked,           \* a goroutine panicked: the process is gone
    cookieLog,          \* per instance: how it authenticated, cookie saves made
    \* ---- StartBrowse / browseRound of one session ----
    rpc,                \* position of StartBrowse
    cancelled,          \* ctx of StartBrowse is cancelled
    expired,            \* time.Now() has reached browseUntil
    scrollCount,        \* `scrollCount` of the running browseRound
    iter,               \* loop index of the running browseRound
    roundScrolls,       \* history: scrolls done by the running browseRound
    statsScrolls,       \* stats.ScrollCount
    processed,          \* what processTenTimesIfNeeded returned last
    bret,               \* what StartBrowse returned
    failedAt,           \* the call whose failure panicked
    lastRefresh,        \* what the last loop body did about the refresh
    missRun,            \* not-visible outcomes in a row without a scroll
    note,               \* the parts a note URL is built from
    parsed,             \* what parseNoteURL returned for it
    \* ---- the scroll bounds of a BrowseConfig ----
    config,             \* MinScrolls and MaxScrolls of the BrowseConfig
    drawn,              \* what the scroll-count draw of browseRound gave
    cpc                 \* position: the caller's values, defaulted, drawn

mgrVars == <<mu, inUse, browser, gpc, barged>>
cfgVars == <<insts, feeds, uiFaults, timesFile, logMisses, forceAll>>
tenVars == <<pc, state, completed, active, activeNotVisible, queue, enqueued,
             fdAt>>
fileVars == <<stateFile, tmpFile, completedFile>>
histVars == <<doneBefore, loadedDone, scannedDone, missLog, abandoned, opened,
              runStarted, discovered, lastScan>>
selVars == <<feedList, viewed, selectedFeed, selErr, spc, stats, lastOpen,
            logOpens>>
orchVars == <<requested, mpc, spawned, opc, results, wg, ctxDone, loginDone,
              ret, browsed, panicked, cookieLog>>
runVars == <<rpc, cancelled, expired, scrollCount, iter, roundScrolls,
             statsScrolls, processed, bret, failedAt, lastRefresh, missRun>>
urlVars == <<note, parsed>>
drawVars == <<config, drawn, cpc>>
campVars == <<tenVars, fileVars, histVars>>
otherVars ==
    <<cfgVars, campVars, selVars, orchVars, runVars, urlVars, drawVars>>
envVars ==
    <<mgrVars, cfgVars, selVars, orchVars, urlVars, drawVars>>
nonSelVars ==
    <<mgrVars, cfgVars, campVars, orchVars, runVars, urlVars, drawVars>>
nonOrchVars ==
    <<mgrVars, cfgVars, campVars, selVars, runVars, urlVars, drawVars>>
nonUrlVars ==
    <<mgrVars, cfgVars, campVars, selVars, orchVars, runVars, drawVars>>
nonDrawVars ==
    <<mgrVars, cfgVars, campVars, selVars, orchVars, runVars, urlVars>>
vars == <<mgrVars, otherVars>>

(***************************************************************************)
(* browser.Manager                                                         *)
(***************************************************************************)
Callers == 1..NumCallers

MgrInit ==
    /\ mu = 0
    /\ inUse = FALSE
    /\ browser = FALSE
    /\ gpc = [g \in Callers |-> "start"]
    /\ barged = FALSE

\* m.mu.Lock() at the top of AcquireBrowser
AcquireLock(g) ==
    /\ gpc[g] = "start"
    /\ mu = 0
    /\ mu' = g
    /\ gpc' = [gpc EXCEPT ![g] = "check"]
    /\ UNCHANGED <<inUse, browser, barged, otherVars>>

\* for m.inUse { m.cond.Wait() }: Wait puts the caller on the notify list and
\* unlocks m.mu; a false condition leaves the loop with m.mu held
WaitLoop(g) ==
    /\ gpc[g] = "check"
    /\ mu = g
    /\ IF inUse
       THEN /\ mu' = 0
            /\ gpc' = [gpc EXCEPT ![g] = "waiting"]
       ELSE /\ mu' = mu
            /\ gpc' = [gpc EXCEPT ![g] = "take"]
    /\ UNCHANGED <<inUse, browser, barged, otherVars>>

WokenTargetIf == "take"

\* the position a woken waiter continues at once it holds m.mu again: the
\* loop condition of `for m.inUse`
WokenTarget == "check"

\* cond.Wait returning: the signalled waiter locks m.mu again
Reacquire(g) ==
    /\ gpc[g] = "woken"
    /\ mu = 0
    /\ mu' = g
    /\ gpc' = [gpc EXCEPT ![g] = WokenTarget]
    /\ barged' = (barged \/ inUse)
    /\ UNCHANGED <<inUse, browser, otherVars>>

\* lazily create the browser, set inUse, unlock and return (browser, release)
TakeLease(g) ==
    /\ gpc[g] = "take"
    /\ mu = g
    /\ browser' = TRUE
    /\ inUse' = TRUE
    /\ mu' = 0
    /\ gpc' = [gpc EXCEPT ![g] = "holding"]
    /\ UNCHANGED <<barged, otherVars>>

\* m.mu.Lock() of the release function
ReleaseLock(g) ==
    /\ gpc[g] = "holding"
    /\ mu = 0
    /\ mu' = g
    /\ gpc' = [gpc EXCEPT ![g] = "releasing"]
    /\ UNCHANGED <<inUse, browser, barged, otherVars>>

SignalNoWake(p, g) == {[p EXCEPT ![g] = "done"]}

\* m.cond.Signal(): wakes one goroutine of the notify list, if there is one
Signal(p, g) ==
    LET waiting == {w \in Callers : p[w] = "waiting"}
    IN  IF waiting = {}
        THEN {[p EXCEPT ![g] = "done"]}
        ELSE {[p EXCEPT ![g] = "done", ![w] = "woken"] : w \in waiting}

\* the body of the release function: inUse = false, Signal, deferred Unlock
Release(g) ==
    /\ gpc[g] = "releasing"
    /\ mu = g
    /\ inUse' = FALSE
    /\ gpc' \in Signal(gpc, g)
    /\ mu' = 0
    /\ UNCHANGED <<browser, barged, otherVars>>

MgrStep ==
    \E g \in Callers :
        \/ AcquireLock(g)
        \/ WaitLoop(g)
        \/ Reacquire(g)
        \/ TakeLease(g)
        \/ ReleaseLock(g)
        \/ Release(g)

Holders == {g \in Callers : gpc[g] \in {"holding", "releasing"}}

\* a caller that has released calls the same release function once more:
\* m.mu.Lock() of the second call
ReleaseAgainLock(g) ==
    /\ gpc[g] = "done"
    /\ mu = 0
    /\ mu' = g
    /\ gpc' = [gpc EXCEPT ![g] = "again"]
    /\ UNCHANGED <<inUse, browser, barged, otherVars>>

\* the body of the release function, run for the second time: the closure
\* keeps no record of the first call
ReleaseAgain(g) ==
    /\ gpc[g] = "again"
    /\ mu = g
    /\ inUse' = FALSE
    /\ gpc' \in {[p EXCEPT ![g] = "twice"] : p \in Signal(gpc, g)}
    /\ mu' = 0
    /\ UNCHANGED <<browser, barged, otherVars>>

\* Manager.CloseBrowser, called by a goroutine that holds no lease: Lock,
\* close and forget the browser and clear inUse when there is a browser,
\* deferred Unlock
CloseBrowser ==
    /\ mu = 0
    /\ IF browser
       THEN /\ browser' = FALSE
            /\ inUse' = FALSE
       ELSE UNCHANGED <<browser, inUse>>
    /\ UNCHANGED <<mu, gpc, barged, otherVars>>

(***************************************************************************)
(* Campaign engine: data                                                   *)
(***************************************************************************)
NoTask == [Author |-> "", FeedID |-> 0, Title |-> ""]

\* a map entry that does not exist (In = FALSE) and the zero tenNoteState
NoState == [In |-> FALSE, Author |-> "", Title |-> "", Count |-> 0,
            Completed |-> FALSE]

EmptyState == [f \in feeds |-> NoState]

\* what the page shows for a note: the author of its card and its title
\* (note 2 has no title; notes above 2 belong to an author off the list)
CardAuthor(f) == IF f <= 2 THEN "alice" ELSE "bob"

CardTitle(f) == IF f = 2 THEN "" ELSE "note"

\* config.InstanceID of the BrowseAction of instance i: RunParallelBrowse
\* hands the caller's config to every instance unchanged, and no caller sets
\* InstanceID (0: the empty id; n > 0: an id that ends in the number n)
ConfigInstanceID(i) == 0

\* the number at the end of the id, the suffix of the file names
instanceNumberSuffix(id) == id

\* resolveTenFiles: the files of an instance, named by that suffix
resolveTenFiles(i) == instanceNumberSuffix(ConfigInstanceID(i))

\* the allow-list file: missing, or a sequence of lines ("" is a line that
\* is blank once trimmed)
NoTimesFile == [k |-> "absent", lines |-> <<>>]

TimesFileOf(lines) == [k |-> "file", lines |-> lines]

readLinesAsSetRaw(file) == {file.lines[n] : n \in 1..Len(file.lines)}

\* readLinesAsSet: the trimmed lines of the file that are not blank
readLinesAsSet(file) ==
    {file.lines[n] : n \in {k \in 1..Len(file.lines) : file.lines[k] # ""}}

\* the `targets` of the tenTimesManager of instance i: the allow-list file is
\* read once, at construction, and no step of the program writes it
targets(i) == readLinesAsSet(timesFile[resolveTenFiles(i)])

\* newTenTimesManager returns (nil, nil): force-all is off and the allow-list
\* file is missing or has no line that is not blank
NoEngine(i) ==
    /\ ~forceAll
    /\ \/ timesFile[resolveTenFiles(i)].k = "absent"
       \/ targets(i) = {}

AbsentFile == [k |-> "absent", d |-> EmptyState]

PartialFile == [k |-> "partial", d |-> EmptyState]

MixedFile == [k |-> "mixed", d |-> EmptyState]

DocFile(m) == [k |-> "doc", d |-> m]

completedKey(author, feedID) == <<author, feedID>>

IsDoneOffByOne(st) == st.Count > TenThreshold

\* `st.Completed || st.Count >= 10`
IsDone(st) == st.Completed \/ st.Count >= TenThreshold

\* st.Completed = true; if st.Count < 10 { st.Count = 10 }
ClampDone(st) ==
    [st EXCEPT !.Completed = TRUE,
               !.Count = IF @ < TenThreshold THEN TenThreshold ELSE @]

\* tenTimesManager.ensureState on the map m of instance i
ensureState(i, m, f) ==
    LET s0 == IF m[f].In THEN m[f] ELSE [NoState EXCEPT !.In = TRUE]
        s1 == IF completedKey(s0.Author, f) \in completed[i]
              THEN ClampDone(s0) ELSE s0
    IN  [m EXCEPT ![f] = s1]

loadTenStateEmpty(file) == EmptyState

\* loadTenState followed by the fallback of newTenTimesManager: a missing,
\* empty or unparsable file gives the empty map
loadTenState(file) == IF file.k = "doc" THEN file.d ELSE EmptyState

IncrementLate(st) ==
    [st EXCEPT !.Count = @ + 1,
               !.Completed = (st.Completed \/ st.Count + 1 > TenThreshold)]

\* st.Count++; if st.Count >= 10 { st.Completed = true }
Increment(st) ==
    [st EXCEPT !.Count = @ + 1,
               !.Completed = (st.Completed \/ st.Count + 1 >= TenThreshold)]

Range(s) == {s[n] : n \in 1..Len(s)}

\* the sequences without repetition over a set: the visible cards in page
\* order
RECURSIVE Perms(_)
Perms(S) ==
    IF S = {} THEN {<<>>}
    ELSE UNION {{<<x>> \o p : p \in Perms(S \ {x})} : x \in S}

CardSeqs == UNION {Perms(S) : S \in SUBSET feeds}

(***************************************************************************)
(* Campaign engine: processTenTimesIfNeeded / executeTenInteractionStep    *)
(***************************************************************************)
\* `matchedTarget`: force-all, or the author is on the allow-list
MatchedTarget(i, author) == forceAll \/ author \in targets(i)

EnqueueFront(q, task) == <<task>> \o q

\* `b.ten.queue = append(b.ten.queue, &tenTask{...})`
Enqueue(q, task) == Append(q, task)

DequeuedKeep(enq, f) == enq

\* `delete(b.ten.enqueued, task.FeedID)` after the head of the queue is taken
Dequeued(enq, f) == enq \ {f}

ScanCardNoSkip(i, acc, f, author) ==
    LET m1 == ensureState(i, acc.st, f)
        base == [acc EXCEPT !.st = m1]
    IN  IF f \in acc.enq THEN base
        ELSE IF author = "" THEN base
        ELSE IF ~MatchedTarget(i, author) THEN base
        ELSE [st |-> m1,
              q |-> Enqueue(acc.q, [Author |-> author, FeedID |-> f,
                                    Title |-> CardTitle(f)]),
              enq |-> acc.enq \cup {f}]

\* one iteration of the card loop of processTenTimesIfNeeded; acc holds the
\* state map, the queue and the enqueued set, author is the resolved name
ScanCard(i, acc, f, author) ==
    LET m1 == ensureState(i, acc.st, f)
        base == [acc EXCEPT !.st = m1]
    IN  IF IsDone(m1[f]) THEN base
        ELSE IF f \in acc.enq THEN base
        ELSE IF author = "" THEN base
        ELSE IF ~MatchedTarget(i, author) THEN base
        ELSE IF completedKey(author, f) \in completed[i]
             THEN [base EXCEPT !.st[f] = ClampDone(m1[f])]
        ELSE [st |-> m1,
              q |-> Enqueue(acc.q, [Author |-> author, FeedID |-> f,
                                    Title |-> CardTitle(f)]),
              enq |-> acc.enq \cup {f}]

\* the card loop over the visible cards, in page order; the author of the
\* cards in noAuthor cannot be resolved
RECURSIVE ScanCards(_, _, _, _)
ScanCards(i, acc, cards, noAuthor) ==
    IF cards = <<>> THEN acc
    ELSE LET f == Head(cards)
         IN  ScanCards(i,
                       ScanCard(i, acc, f,
                                IF f \in noAuthor THEN "" ELSE CardAuthor(f)),
                       Tail(cards), noAuthor)

\* the head of executeTenInteractionStep: ensureState, copy author and title
\* of the task, reconcile with the completed ledger
ExecPrepare(i, m, task) ==
    LET f == task.FeedID
        m1 == ensureState(i, m, f)
        s1 == [m1[f] EXCEPT !.Author = task.Author,
                            !.Title = IF @ = "" THEN task.Title ELSE @]
        s2 == IF completedKey(s1.Author, f) \in completed[i]
              THEN ClampDone(s1) ELSE s1
    IN  [m1 EXCEPT ![f] = s2]

ExecOutcomeAlways(i, m, task, canOpen) ==
    [m EXCEPT ![task.FeedID] = Increment(m[task.FeedID])]

\* executeTenInteractionStep on the map m (already prepared) for a task
\* that is not done: the target card is not visible or the note cannot be
\* opened (didInteract = false), or the note is opened, browsed and closed
\* and st.Count++ runs; saveState follows in the steps below
ExecOutcome(i, m, task, canOpen) ==
    IF canOpen
    THEN [m EXCEPT ![task.FeedID] = Increment(m[task.FeedID])]
    ELSE m

AbandonsLate(n) == n > NotVisibleLimit

\* `if b.ten.activeNotVisible >= 6` after the increment
Abandons(n) == n >= NotVisibleLimit

ForceLikeAlways(st) == TRUE

\* `if st.Count == 0 { b.forceLikeAndFavoriteInModal(...) }`
ForceLikeDue(st) == st.Count = 0

\* no step of the engine has opened a note
NoOpen == [done |-> FALSE, count |-> 0, forced |-> FALSE]

\* the note is opened with the state st: browseNoteToBottom, and the forced
\* like+save when it is due
OpenedAt(st) == [done |-> TRUE, count |-> st.Count, forced |-> ForceLikeDue(st)]

\* no scan has run
NoScan == [cards |-> <<>>, noAuthor |-> {}]

\* no step on the active item has ended without interaction
NoMisses == [n |-> 0, first |-> FALSE]

\* the new value of a history variable that is kept only when logMisses
Logged(new, old) == IF logMisses THEN new ELSE old

\* processTenTimesIfNeeded with an active task (`if b.ten.active != nil`)
ProcessActive(i, canOpen) ==
    /\ pc[i] = "ready"
    /\ active[i] # NoTask
    /\ LET task == active[i]
           m == ExecPrepare(i, state[i], task)
       IN  IF IsDone(m[task.FeedID])
           THEN /\ state' = [state EXCEPT ![i] = m]
                /\ active' = [active EXCEPT ![i] = NoTask]
                /\ activeNotVisible' = [activeNotVisible EXCEPT ![i] = 0]
                /\ pc' = pc
                /\ missLog' = [missLog EXCEPT ![i] = NoMisses]
                /\ opened' = [opened EXCEPT ![i] = NoOpen]
                /\ abandoned' = abandoned
           ELSE /\ state' = [state EXCEPT ![i] =
                                ExecOutcome(i, m, task, canOpen)]
                /\ IF canOpen
                   THEN /\ pc' = [pc EXCEPT ![i] = "write"]
                        /\ missLog' = [missLog EXCEPT ![i] = NoMisses]
                        /\ opened' = [opened EXCEPT ![i] =
                                         OpenedAt(m[task.FeedID])]
                        /\ UNCHANGED <<active, activeNotVisible, abandoned>>
                   ELSE /\ pc' = pc
                        /\ missLog' = [missLog EXCEPT ![i].n =
                                          Logged(@ + 1, @)]
                        /\ opened' = [opened EXCEPT ![i] = NoOpen]
                        /\ IF Abandons(activeNotVisible[i] + 1)
                           THEN /\ active' = [active EXCEPT ![i] = NoTask]
                                /\ activeNotVisible' =
                                     [activeNotVisible EXCEPT ![i] = 0]
                                /\ abandoned' = [abandoned EXCEPT ![i] =
                                       Logged(@ \cup {task.FeedID}, @)]
                           ELSE /\ active' = active
                                /\ activeNotVisible' =
                                     [activeNotVisible EXCEPT ![i] = @ + 1]
                                /\ abandoned' = abandoned
    /\ discovered' = [discovered EXCEPT ![i] = <<>>]
    /\ UNCHANGED <<queue, enqueued, completed, fdAt, fileVars, doneBefore,
                   loadedDone, scannedDone, runStarted, lastScan, envVars>>

\* processTenTimesIfNeeded without an active task: scan the visible cards,
\* enqueue the matches, make the head of the queue active and run
\* executeTenInteractionStep on it
ProcessScan(i, cards, noAuthor, canOpen) ==
    /\ pc[i] = "ready"
    /\ active[i] = NoTask
    /\ LET acc == ScanCards(i, [st |-> state[i], q |-> queue[i],
                                enq |-> enqueued[i]], cards, noAuthor)
           found == acc.enq \ enqueued[i]
       IN  IF acc.q = <<>>
           THEN /\ state' = [state EXCEPT ![i] = acc.st]
                /\ discovered' = [discovered EXCEPT ![i] = <<>>]
                /\ opened' = [opened EXCEPT ![i] = NoOpen]
                /\ UNCHANGED <<pc, active, activeNotVisible, queue, enqueued,
                               missLog>>
           ELSE LET task == Head(acc.q)
                    f == task.FeedID
                    m == ExecPrepare(i, acc.st, task)
                    isOpen == canOpen /\ f \in Range(cards)
                IN  /\ queue' = [queue EXCEPT ![i] = Tail(acc.q)]
                    /\ discovered' = [discovered EXCEPT ![i] =
                          SelectSeq(cards, LAMBDA c : c \in found)]
                    /\ enqueued' = [enqueued EXCEPT ![i] = Dequeued(acc.enq, f)]
                    /\ activeNotVisible' = [activeNotVisible EXCEPT ![i] = 0]
                    /\ IF IsDone(m[f])
                       THEN /\ state' = [state EXCEPT ![i] = m]
                            /\ active' = [active EXCEPT ![i] = NoTask]
                            /\ pc' = pc
                            /\ missLog' = [missLog EXCEPT ![i] = NoMisses]
                            /\ opened' = [opened EXCEPT ![i] = NoOpen]
                       ELSE /\ state' = [state EXCEPT ![i] =
                                           ExecOutcome(i, m, task, isOpen)]
                            /\ active' = [active EXCEPT ![i] = task]
                            /\ pc' = IF isOpen
                                     THEN [pc EXCEPT ![i] = "write"]
                                     ELSE pc
                            /\ missLog' = [missLog EXCEPT ![i] =
                                  IF isOpen THEN NoMisses
                                  ELSE Logged([n |-> 1, first |-> TRUE], @)]
                            /\ opened' = [opened EXCEPT ![i] =
                                  IF isOpen THEN OpenedAt(m[f]) ELSE NoOpen]
    /\ scannedDone' = [scannedDone EXCEPT ![i] = @ \cup
          {f \in Range(cards) : IsDone(ensureState(i, state[i], f)[f])}]
    /\ lastScan' = [lastScan EXCEPT ![i] =
          IF forceAll THEN [cards |-> cards, noAuthor |-> noAuthor] ELSE @]
    /\ UNCHANGED <<completed, fdAt, fileVars, doneBefore, loadedDone,
                   abandoned, runStarted, envVars>>

(***************************************************************************)
(* saveState / writeFileAtomic, one file system call per step              *)
(***************************************************************************)
SamePath(i, j) == resolveTenFiles(i) = resolveTenFiles(j)

\* the other instances that have the same file open for writing
CoWriters(i, at) ==
    {j \in insts \ {i} : SamePath(i, j) /\ fdAt[j] = at}

\* os.WriteFile(tmp, ...): open with O_CREATE|O_TRUNC
WriteTmpOpen(i) ==
    /\ pc[i] = "write"
    /\ LET p == resolveTenFiles(i)
       IN  tmpFile' = [tmpFile EXCEPT ![p] =
                          IF CoWriters(i, "tmp") # {} THEN MixedFile
                          ELSE PartialFile]
    /\ fdAt' = [fdAt EXCEPT ![i] = "tmp"]
    /\ pc' = [pc EXCEPT ![i] = "writing"]
    /\ discovered' = [discovered EXCEPT ![i] = <<>>]
    /\ UNCHANGED <<state, completed, active, activeNotVisible, queue,
                   enqueued, stateFile, completedFile, doneBefore, loadedDone,
                   scannedDone, missLog, abandoned, opened, runStarted,
                   lastScan, envVars>>

\* what the written file holds once instance i has written its document: the
\* document, unless another writer truncated or wrote the same file meanwhile
Written(i, cur) ==
    IF CoWriters(i, fdAt[i]) # {} THEN {MixedFile}
    ELSE IF cur.k = "mixed" THEN {DocFile(state[i]), MixedFile}
    ELSE {DocFile(state[i])}

\* os.WriteFile(tmp, ...): the write and the close; the data goes to the file
\* that was opened, wherever a rename has moved it since
WriteTmpDone(i) ==
    /\ pc[i] = "writing"
    /\ LET p == resolveTenFiles(i)
       IN  CASE fdAt[i] = "tmp" ->
                  /\ \E c \in Written(i, tmpFile[p]) :
                         tmpFile' = [tmpFile EXCEPT ![p] = c]
                  /\ stateFile' = stateFile
             [] fdAt[i] = "state" ->
                  /\ \E c \in Written(i, stateFile[p]) :
                         stateFile' = [stateFile EXCEPT ![p] = c]
                  /\ tmpFile' = tmpFile
             [] OTHER -> UNCHANGED <<stateFile, tmpFile>>
    /\ fdAt' = [fdAt EXCEPT ![i] = "none"]
    /\ pc' = [pc EXCEPT ![i] = "rename"]
    /\ UNCHANGED <<state, completed, active, activeNotVisible, queue,
                   enqueued, completedFile, histVars, envVars>>

\* what os.Rename(tmp, path) leaves at path: the file that was at tmp
Renamed(tmp, old) == tmp

\* os.Rename(tmp, path); it fails when tmp does not exist (any more), and
\* saveState then returns the error, which the caller logs
RenameTmp(i) ==
    /\ pc[i] = "rename"
    /\ LET p == resolveTenFiles(i)
       IN  IF tmpFile[p].k = "absent"
           THEN UNCHANGED <<stateFile, tmpFile, fdAt>>
           ELSE /\ stateFile' = [stateFile EXCEPT ![p] =
                                    Renamed(tmpFile[p], stateFile[p])]
                /\ tmpFile' = [tmpFile EXCEPT ![p] = AbsentFile]
                /\ fdAt' = [j \in insts |->
                              IF ~SamePath(i, j) THEN fdAt[j]
                              ELSE IF fdAt[j] = "tmp" THEN "state"
                              ELSE IF fdAt[j] = "state" THEN "gone"
                              ELSE fdAt[j]]
    /\ pc' = [pc EXCEPT ![i] = "finish"]
    /\ UNCHANGED <<state, completed, active, activeNotVisible, queue,
                   enqueued, completedFile, histVars, envVars>>

\* `identifier`: the trimmed title, or the placeholder when it is empty
\* ("(untitled)" stands for the placeholder string of the source)
Identifier(title) == IF title = "" THEN "(untitled)" ELSE title

LedgerLineRaw(author, title) == <<author, title>>

\* the line appendCompleted writes: "author,identifier\n"
LedgerLine(author, title) == <<author, Identifier(title)>>

StepCompletedAlways(st) == TRUE

\* `if st.Completed { appendCompleted(...); return true, true, nil }`
StepCompleted(st) == st.Completed

\* the rest of executeTenInteractionStep after saveState (appendCompleted
\* when the note is completed) and of processTenTimesIfNeeded after it
\* returned didInteract = true
TenFinish(i) ==
    /\ pc[i] = "finish"
    /\ LET task == active[i]
           st == state[i][task.FeedID]
           key == completedKey(task.Author, task.FeedID)
           p == resolveTenFiles(i)
       IN  IF StepCompleted(st)
           THEN /\ IF key \in completed[i]
                   THEN UNCHANGED <<completedFile, completed>>
                   ELSE /\ completedFile' = [completedFile EXCEPT ![p] =
                               Append(@, LedgerLine(task.Author, st.Title))]
                        /\ completed' = [completed EXCEPT ![i] =
                                            @ \cup {key}]
                /\ active' = [active EXCEPT ![i] = NoTask]
           ELSE /\ UNCHANGED <<completedFile, completed>>
                /\ active' = active
    /\ activeNotVisible' = [activeNotVisible EXCEPT ![i] = 0]
    /\ pc' = [pc EXCEPT ![i] = "ready"]
    /\ opened' = [opened EXCEPT ![i] = NoOpen]
    /\ UNCHANGED <<state, queue, enqueued, fdAt, stateFile, tmpFile,
                   doneBefore, loadedDone, scannedDone, missLog, abandoned,
                   runStarted, discovered, lastScan, envVars>>

(***************************************************************************)
(* Sessions and the process                                                *)
(***************************************************************************)
DoneIn(m) == {f \in feeds : m[f].In /\ IsDone(m[f])}

Reached(m) == {f \in feeds : m[f].Count >= TenThreshold}

\* NewBrowseAction -> newTenTimesManager: without targets the manager is nil
\* (position "plain"); otherwise truncate the completed file, start with an
\* empty ledger, load the state file
NewBrowseAction(i) ==
    /\ pc[i] = "off"
    /\ LET p == resolveTenFiles(i)
       IN  IF NoEngine(i)
           THEN /\ pc' = [pc EXCEPT ![i] = "plain"]
                /\ UNCHANGED <<completedFile, state, loadedDone>>
           ELSE /\ pc' = [pc EXCEPT ![i] = "ready"]
                /\ completedFile' = [completedFile EXCEPT ![p] = <<>>]
                /\ state' = [state EXCEPT ![i] = loadTenState(stateFile[p])]
                /\ loadedDone' = [loadedDone EXCEPT ![i] =
                      IF stateFile[p].k = "doc" THEN DoneIn(stateFile[p].d)
                      ELSE {}]
    /\ completed' = [completed EXCEPT ![i] = {}]
    /\ active' = [active EXCEPT ![i] = NoTask]
    /\ activeNotVisible' = [activeNotVisible EXCEPT ![i] = 0]
    /\ queue' = [queue EXCEPT ![i] = <<>>]
    /\ enqueued' = [enqueued EXCEPT ![i] = {}]
    /\ scannedDone' = [scannedDone EXCEPT ![i] = {}]
    /\ missLog' = [missLog EXCEPT ![i] = NoMisses]
    /\ abandoned' = [abandoned EXCEPT ![i] = {}]
    /\ opened' = [opened EXCEPT ![i] = NoOpen]
    /\ discovered' = [discovered EXCEPT ![i] = <<>>]
    /\ lastScan' = [lastScan EXCEPT ![i] = NoScan]
    /\ runStarted' = TRUE
    /\ UNCHANGED <<fdAt, stateFile, tmpFile, doneBefore, envVars>>

\* StartBrowse returns (deadline or cancellation, checked between rounds):
\* the BrowseAction and its tenTimesManager are dropped
EndSession(i) ==
    /\ pc[i] \in {"ready", "plain"}
    /\ pc' = [pc EXCEPT ![i] = "off"]
    /\ doneBefore' = doneBefore \cup Reached(state[i])
    /\ state' = [state EXCEPT ![i] = EmptyState]
    /\ completed' = [completed EXCEPT ![i] = {}]
    /\ active' = [active EXCEPT ![i] = NoTask]
    /\ activeNotVisible' = [activeNotVisible EXCEPT ![i] = 0]
    /\ queue' = [queue EXCEPT ![i] = <<>>]
    /\ enqueued' = [enqueued EXCEPT ![i] = {}]
    /\ loadedDone' = [loadedDone EXCEPT ![i] = {}]
    /\ scannedDone' = [scannedDone EXCEPT ![i] = {}]
    /\ missLog' = [missLog EXCEPT ![i] = NoMisses]
    /\ abandoned' = [abandoned EXCEPT ![i] = {}]
    /\ opened' = [opened EXCEPT ![i] = NoOpen]
    /\ discovered' = [discovered EXCEPT ![i] = <<>>]
    /\ lastScan' = [lastScan EXCEPT ![i] = NoScan]
    /\ UNCHANGED <<fdAt, fileVars, runStarted, envVars>>

\* the process is killed: every session loses its memory, the files stay as
\* they are
Crash ==
    /\ \E i \in insts : pc[i] # "off"
    /\ doneBefore' = doneBefore \cup UNION {Reached(state[i]) : i \in insts}
    /\ pc' = [i \in insts |-> "off"]
    /\ state' = [i \in insts |-> EmptyState]
    /\ completed' = [i \in insts |-> {}]
    /\ active' = [i \in insts |-> NoTask]
    /\ activeNotVisible' = [i \in insts |-> 0]
    /\ queue' = [i \in insts |-> <<>>]
    /\ enqueued' = [i \in insts |-> {}]
    /\ fdAt' = [i \in insts |-> "none"]
    /\ loadedDone' = [i \in insts |-> {}]
    /\ scannedDone' = [i \in insts |-> {}]
    /\ missLog' = [i \in insts |-> NoMisses]
    /\ abandoned' = [i \in insts |-> {}]
    /\ opened' = [i \in insts |-> NoOpen]
    /\ discovered' = [i \in insts |-> <<>>]
    /\ lastScan' = [i \in insts |-> NoScan]
    /\ runStarted' = FALSE
    /\ UNCHANGED <<fileVars, envVars>>

TenInitWith(I, F, U, L) ==
    /\ logMisses = L
    /\ insts = I
    /\ feeds = F
    /\ uiFaults = U
    /\ pc = [i \in I |-> "off"]
    /\ state = [i \in I |-> [f \in F |-> NoState]]
    /\ completed = [i \in I |-> {}]
    /\ active = [i \in I |-> NoTask]
    /\ activeNotVisible = [i \in I |-> 0]
    /\ queue = [i \in I |-> <<>>]
    /\ enqueued = [i \in I |-> {}]
    /\ fdAt = [i \in I |-> "none"]
    /\ stateFile = [p \in {0} \cup I |-> [k |-> "absent",
                                           d |-> [f \in F |-> NoState]]]
    /\ tmpFile = [p \in {0} \cup I |-> [k |-> "absent",
                                         d |-> [f \in F |-> NoState]]]
    /\ completedFile = [p \in {0} \cup I |-> <<>>]
    /\ doneBefore = {}
    /\ loadedDone = [i \in I |-> {}]
    /\ scannedDone = [i \in I |-> {}]
    /\ missLog = [i \in I |-> NoMisses]
    /\ abandoned = [i \in I |-> {}]
    /\ opened = [i \in I |-> NoOpen]
    /\ discovered = [i \in I |-> <<>>]
    /\ lastScan = [i \in I |-> NoScan]
    /\ runStarted = FALSE

\* the engines of the instances I over the notes F, UI faults when U, in a
\* process whose TEN_TIMES_FORCE_ALL is unset
TenInit(I, F, U) == TenInitWith(I, F, U, FALSE) /\ forceAll = FALSE

\* the allow-list files a run can start with: missing, empty, blank lines
\* only, or naming the author alice after a blank line
TimesFiles ==
    {NoTimesFile, TimesFileOf(<<>>), TimesFileOf(<<"", "">>),
     TimesFileOf(<<"", "alice">>)}

ListedFile == TimesFileOf(<<"", "alice">>)

\* the same allow-list content at every path
TimesInit(files) == \E c \in files : timesFile = [p \in {0} \cup insts |-> c]

\* whether the target card is visible and the note opens
UiOutcomes == IF uiFaults THEN BOOLEAN ELSE {TRUE}

\* the cards whose author name cannot be resolved
Unresolved(cards) == IF uiFaults THEN SUBSET Range(cards) ELSE {{}}

\* the steps of saveState and of what follows it in
\* executeTenInteractionStep
SaveNext ==
    \/ \E i \in insts : WriteTmpOpen(i) /\ UNCHANGED runVars
    \/ \E i \in insts : WriteTmpDone(i) /\ UNCHANGED runVars
    \/ \E i \in insts : RenameTmp(i) /\ UNCHANGED runVars
    \/ \E i \in insts : TenFinish(i) /\ UNCHANGED runVars

TenNext ==
    \/ \E i \in insts : NewBrowseAction(i) /\ UNCHANGED runVars
    \/ \E i \in insts, canOpen \in UiOutcomes :
           ProcessActive(i, canOpen) /\ UNCHANGED runVars
    \/ \E i \in insts, cards \in CardSeqs, canOpen \in UiOutcomes :
           \E noAuthor \in Unresolved(cards) :
               ProcessScan(i, cards, noAuthor, canOpen) /\ UNCHANGED runVars
    \/ SaveNext
    \/ \E i \in insts : EndSession(i) /\ UNCHANGED runVars
    \/ Crash /\ UNCHANGED runVars

(***************************************************************************)
(* StartBrowse and browseRound of one session                              *)
(***************************************************************************)
\* the instance whose session is followed round by round
Self == 1

NoBrowseReturn == [done |-> FALSE, err |-> "nil", ScrollCount |-> 0]

RunInit ==
    /\ rpc = "new"
    /\ cancelled = FALSE
    /\ expired = FALSE
    /\ scrollCount = 0
    /\ iter = 0
    /\ roundScrolls = 0
    /\ statsScrolls = 0
    /\ processed = FALSE
    /\ bret = NoBrowseReturn
    /\ failedAt = ""
    /\ lastRefresh = "none"
    /\ missRun = 0

\* no session is followed round by round
RunIdle ==
    /\ rpc = "idle"
    /\ cancelled = FALSE
    /\ expired = FALSE
    /\ scrollCount = 0
    /\ iter = 0
    /\ roundScrolls = 0
    /\ statsScrolls = 0
    /\ processed = FALSE
    /\ bret = NoBrowseReturn
    /\ failedAt = ""
    /\ lastRefresh = "none"
    /\ missRun = 0

\* a Must call of rod panics when the call fails; the call fails when the
\* page fails it or when the context of its page is cancelled
MustFails(pageOk) == ~pageOk \/ cancelled

\* NewBrowseAction(page, config) ahead of StartBrowse
RunStart ==
    /\ rpc = "new"
    /\ NewBrowseAction(Self)
    /\ rpc' = "nav"
    /\ UNCHANGED <<cancelled, expired, scrollCount, iter, roundScrolls,
                   statsScrolls, processed, bret, failedAt, lastRefresh, missRun>>

\* the head of StartBrowse: MustNavigate(...).MustWaitLoad() under navCtx,
\* then browseUntil is set
FirstNavigate(pageOk) ==
    /\ rpc = "nav"
    /\ IF MustFails(pageOk)
       THEN rpc' = "panic" /\ failedAt' = "navigate"
       ELSE rpc' = "top" /\ failedAt' = failedAt
    /\ UNCHANGED <<cancelled, expired, scrollCount, iter, roundScrolls,
                   statsScrolls, processed, bret, lastRefresh, missRun, campVars,
                   envVars>>

\* the loop condition and the select of StartBrowse: past the deadline the
\* loop ends and (stats, nil) is returned, on a cancelled ctx (stats,
\* ctx.Err()) is returned, otherwise the default branch runs
LoopTop ==
    /\ rpc = "top"
    /\ IF expired \/ cancelled
       THEN /\ EndSession(Self)
            /\ bret' = [done |-> TRUE,
                        err |-> IF expired THEN "nil" ELSE "ctx",
                        ScrollCount |-> statsScrolls]
            /\ rpc' = "returned"
       ELSE /\ rpc' = "body"
            /\ UNCHANGED <<bret, campVars, envVars>>
    /\ UNCHANGED <<cancelled, expired, scrollCount, iter, roundScrolls,
                   statsScrolls, processed, failedAt, lastRefresh, missRun>>

RefreshPostponedNever == FALSE

\* `b.ten != nil && (b.ten.active != nil || len(b.ten.queue) > 0)`
RefreshPostponed ==
    pc[Self] # "plain" /\ (active[Self] # NoTask \/ queue[Self] # <<>>)

\* what the loop body does about the refresh: nothing before nextRefreshTime,
\* a later nextRefreshTime while campaign work is pending, else the reload
RefreshDecision(refreshDue) ==
    IF ~refreshDue THEN "notdue"
    ELSE IF RefreshPostponed THEN "postponed"
    ELSE "reload"

\* the default branch of the select, before browseRound: the refresh when it
\* is due and not postponed (MustNavigate)
RefreshCheck(refreshDue, pageOk) ==
    /\ rpc = "body"
    /\ lastRefresh' = RefreshDecision(refreshDue)
    /\ IF RefreshDecision(refreshDue) = "reload" /\ MustFails(pageOk)
       THEN /\ rpc' = "panic"
            /\ failedAt' = "refresh"
       ELSE /\ rpc' = "round"
            /\ failedAt' = failedAt
    /\ UNCHANGED <<cancelled, expired, scrollCount, iter, roundScrolls,
                   statsScrolls, processed, bret, missRun, campVars, envVars>>

\* browseRound up to its first loop iteration: the draw of scrollCount
RoundStart(r) ==
    /\ rpc = "round"
    /\ rpc' = "ten1"
    /\ scrollCount' = r
    /\ iter' = 0
    /\ roundScrolls' = 0
    /\ lastRefresh' = "none"
    /\ UNCHANGED <<cancelled, expired, statsScrolls, processed, bret,
                   failedAt, missRun, campVars, envVars>>

\* `continue` or the end of the loop body: i++, and browseRound returns nil
\* when i reaches scrollCount
NextIteration ==
    /\ iter' = iter + 1
    /\ rpc' = IF iter + 1 < scrollCount THEN "ten1" ELSE "top"

AfterTen(at) == IF at = "ten1" THEN "ten1r" ELSE "ten2r"

\* processTenTimesIfNeeded without engine: (false, nil); the caller does
\* not even call it (`if b.ten != nil`)
TenNil ==
    /\ rpc \in {"ten1", "ten2"}
    /\ pc[Self] = "plain"
    /\ processed' = FALSE
    /\ rpc' = AfterTen(rpc)
    /\ UNCHANGED <<cancelled, expired, scrollCount, iter, roundScrolls,
                   statsScrolls, bret, failedAt, lastRefresh, missRun, campVars,
                   envVars>>

\* processTenTimesIfNeeded on a cancelled ctx: with an active task
\* executeTenInteractionStep returns ctx.Err(), which the caller logs before
\* it goes on as if nothing was processed; without one getFeedsFromPage
\* runs MustEval on the cancelled page
TenCancelled ==
    /\ rpc \in {"ten1", "ten2"}
    /\ pc[Self] = "ready"
    /\ cancelled
    /\ IF active[Self] # NoTask
       THEN /\ processed' = FALSE
            /\ rpc' = AfterTen(rpc)
            /\ failedAt' = failedAt
       ELSE /\ processed' = processed
            /\ rpc' = "panic"
            /\ failedAt' = "campaign"
    /\ UNCHANGED <<cancelled, expired, scrollCount, iter, roundScrolls,
                   statsScrolls, bret, lastRefresh, missRun, campVars, envVars>>

\* the `processed` result of processTenTimesIfNeeded with an active task:
\* false only when the task is dropped after 6 calls without interaction
ProcessedActive(i, canOpen) ==
    LET m == ExecPrepare(i, state[i], active[i])
    IN  \/ IsDone(m[active[i].FeedID])
        \/ canOpen
        \/ ~Abandons(activeNotVisible[i] + 1)

\* executeTenInteractionStep on the active task returns (false, false, nil):
\* the card is not visible or the note does not open
MissedActive(i, canOpen) ==
    /\ ~IsDone(ExecPrepare(i, state[i], active[i])[active[i].FeedID])
    /\ ~canOpen

\* one more not-visible outcome since the last scroll (2 stands for any
\* number above 1)
AnotherMiss(n) == IF n >= 2 THEN 2 ELSE n + 1

\* the `processed` result of processTenTimesIfNeeded without active task:
\* true when the queue is not empty after the scan
ProcessedScan(i, cards, noAuthor) ==
    ScanCards(i, [st |-> state[i], q |-> queue[i], enq |-> enqueued[i]],
              cards, noAuthor).q # <<>>

TenActive(canOpen) ==
    /\ rpc \in {"ten1", "ten2"}
    /\ ~cancelled
    /\ ProcessActive(Self, canOpen)
    /\ processed' = ProcessedActive(Self, canOpen)
    /\ missRun' = IF MissedActive(Self, canOpen) THEN AnotherMiss(missRun)
                  ELSE 0
    /\ rpc' = AfterTen(rpc)
    /\ UNCHANGED <<cancelled, expired, scrollCount, iter, roundScrolls,
                   statsScrolls, bret, failedAt, lastRefresh>>

TenScan(cards, noAuthor, canOpen) ==
    /\ rpc \in {"ten1", "ten2"}
    /\ ~cancelled
    /\ ProcessScan(Self, cards, noAuthor, canOpen)
    /\ processed' = ProcessedScan(Self, cards, noAuthor)
    /\ missRun' = IF active'[Self] # NoTask /\ pc'[Self] = "ready" THEN 1
                  ELSE 0
    /\ rpc' = AfterTen(rpc)
    /\ UNCHANGED <<cancelled, expired, scrollCount, iter, roundScrolls,
                   statsScrolls, bret, failedAt, lastRefresh>>

\* back in browseRound after processTenTimesIfNeeded (saveState included):
\* `processed` pauses and continues with the next iteration, otherwise the
\* scroll (first call) or the click decision (second call) follows
TenReturn ==
    /\ rpc \in {"ten1r", "ten2r"}
    /\ pc[Self] \in {"ready", "plain"}
    /\ IF processed
       THEN NextIteration
       ELSE /\ rpc' = IF rpc = "ten1r" THEN "scroll" ELSE "click"
            /\ iter' = iter
    /\ UNCHANGED <<cancelled, expired, scrollCount, roundScrolls,
                   statsScrolls, processed, bret, failedAt, lastRefresh, missRun,
                   campVars, envVars>>

\* humanLikeScrollWithBacktrack (Must calls only, it never returns an
\* error) and stats.ScrollCount++; a scroll by the mouse wheel is sent on
\* the page the Mouse was created for and may pass although ctx is cancelled
Scroll(pageOk, onCtxPage) ==
    /\ rpc = "scroll"
    /\ statsScrolls < MaxScrollCount
    /\ IF ~pageOk \/ (cancelled /\ onCtxPage)
       THEN /\ rpc' = "panic"
            /\ failedAt' = "scroll"
            /\ UNCHANGED <<statsScrolls, roundScrolls, missRun>>
       ELSE /\ rpc' = "ten2"
            /\ statsScrolls' = statsScrolls + 1
            /\ roundScrolls' = roundScrolls + 1
            /\ failedAt' = failedAt
            /\ missRun' = 0
    /\ UNCHANGED <<cancelled, expired, scrollCount, iter, processed, bret,
                   lastRefresh, campVars, envVars>>

\* the roll of ClickProbability and clickAndViewNote: without error the
\* iteration ends; an error is logged and the recovery MustNavigate runs;
\* on a cancelled ctx clickAndViewNote starts with MustEval on the page
Click(doClick, clickOk, pageOk) ==
    /\ rpc = "click"
    /\ IF doClick /\ (cancelled \/ (~clickOk /\ MustFails(pageOk)))
       THEN /\ rpc' = "panic"
            /\ failedAt' = "click"
            /\ iter' = iter
       ELSE /\ NextIteration
            /\ failedAt' = failedAt
    /\ UNCHANGED <<cancelled, expired, scrollCount, roundScrolls,
                   statsScrolls, processed, bret, lastRefresh, missRun, campVars,
                   envVars>>

InSession == rpc \notin {"idle", "new", "returned", "panic"}

\* the caller cancels ctx
Cancel ==
    /\ InSession
    /\ ~cancelled
    /\ cancelled' = TRUE
    /\ UNCHANGED <<rpc, expired, scrollCount, iter, roundScrolls,
                   statsScrolls, processed, bret, failedAt, lastRefresh, missRun,
                   campVars, envVars>>

\* the clock reaches browseUntil; only the loop condition reads the clock,
\* so the moment is taken when StartBrowse is about to evaluate it
Expire ==
    /\ InSession
    /\ rpc = "top"
    /\ ~expired
    /\ expired' = TRUE
    /\ UNCHANGED <<rpc, cancelled, scrollCount, iter, roundScrolls,
                   statsScrolls, processed, bret, failedAt, lastRefresh, missRun,
                   campVars, envVars>>

RunNext ==
    \/ RunStart
    \/ \E pageOk \in BOOLEAN : FirstNavigate(pageOk)
    \/ LoopTop
    \/ \E refreshDue \in BOOLEAN, pageOk \in BOOLEAN :
           RefreshCheck(refreshDue, pageOk)
    \/ \E r \in MinScrolls..MaxScrolls : RoundStart(r)
    \/ TenNil
    \/ TenCancelled
    \/ \E canOpen \in UiOutcomes : TenActive(canOpen)
    \/ \E cards \in CardSeqs, canOpen \in UiOutcomes :
           \E noAuthor \in Unresolved(cards) : TenScan(cards, noAuthor, canOpen)
    \/ SaveNext
    \/ TenReturn
    \/ \E pageOk \in BOOLEAN, onCtxPage \in BOOLEAN : Scroll(pageOk, onCtxPage)
    \/ \E doClick \in BOOLEAN, clickOk \in BOOLEAN, pageOk \in BOOLEAN :
           Click(doClick, clickOk, pageOk)
    \/ Cancel
    \/ Expire

(***************************************************************************)
(* clickAndViewNote and the stats of the session                           *)
(***************************************************************************)
\* the ids a feed of the page can carry ("" is a feed without id)
FeedIDs == {"", "n1", "n2"}

NoFeed == "none"

\* the sequences over S of length at most n
RECURSIVE SeqsUpTo(_, _)
SeqsUpTo(S, n) ==
    IF n = 0 THEN {<<>>}
    ELSE LET shorter == SeqsUpTo(S, n - 1)
         IN  shorter \cup {Append(q, x) : q \in shorter, x \in S}

IsListed(id, seen) == id # ""

\* the filter of the `unviewed` loop: the feed has an id and the id is not
\* in the viewed set
IsUnviewed(id, seen) == id # "" /\ id \notin seen

\* `unviewed`: the feeds of the list that pass the filter, in list order
Unviewed(list, seen) == SelectSeq(list, LAMBDA id : IsUnviewed(id, seen))

\* the feeds selectFeedForClick can return: a random unviewed feed, or a
\* random feed of the list when none is unviewed
SelectFeedForClick(list, seen) ==
    IF Len(Unviewed(list, seen)) > 0
    THEN Range(Unviewed(list, seen))
    ELSE Range(list)

\* the visible note cards, each by the id extractNoteInfo reads from it ("" is
\* a card without id)
VisibleCards == SeqsUpTo(FeedIDs, MaxCards)

\* selectCardForFeed: the first visible card that carries the id of the
\* feed, or a random visible card when none does
selectCardForFeed(cards, feedID) ==
    IF \E k \in 1..Len(cards) : cards[k] = feedID THEN {feedID}
    ELSE Range(cards)

\* &BrowseStats{ViewedNotes: make([]string, 0), viewedSet: make(...)}; the
\* viewedSet is the variable `viewed`
NewStats == [ClickCount |-> 0, LikeCount |-> 0, FavoriteCount |-> 0,
             ViewedNotes |-> <<>>]

openNoteFromCardOnce(s, feedID) ==
    [s EXCEPT !.ClickCount = @ + 1,
              !.ViewedNotes = IF feedID \in Range(@) THEN @
                              ELSE Append(@, feedID)]

\* openNoteFromCard once the click has succeeded: stats.ClickCount++ and
\* append(stats.ViewedNotes, feedID)
openNoteFromCard(s, feedID) ==
    [s EXCEPT !.ClickCount = @ + 1, !.ViewedNotes = Append(@, feedID)]

\* forceLikeAndFavoriteInModal: stats.LikeCount++ when the like is made,
\* stats.FavoriteCount++ when the save is made (each is skipped when the
\* modal is not found, the note is already liked or saved, or the click fails)
forceLikeAndFavoriteInModal(s, like, fav) ==
    [s EXCEPT !.LikeCount = IF like THEN @ + 1 ELSE @,
              !.FavoriteCount = IF fav THEN @ + 1 ELSE @]

\* the dwell policy browseNoteContent / browseNoteToBottom follow
BrowseDwell(isRealVideo) == IF isRealVideo THEN "long" ELSE "short"

ViewDecisionLight(followed, isRealVideo) ==
    [interact |-> followed /\ ~isRealVideo,
     dwell |-> IF followed THEN BrowseDwell(isRealVideo) ELSE "exit",
     inc |-> 0, done |-> FALSE]

\* clickAndViewNote once the note is open: an author that is not followed
\* ends the visit after a short stay; otherwise browseNoteContent and
\* forceLikeAndFavoriteInModal run
ViewDecision(followed, isRealVideo) ==
    [interact |-> followed,
     dwell |-> IF followed THEN BrowseDwell(isRealVideo) ELSE "exit",
     inc |-> 0, done |-> FALSE]

\* executeTenInteractionStep once the note is open: browseNoteToBottom, the
\* forced like+save at count 0, st.Count++ and Completed at 10
TenDecision(st, isRealVideo) ==
    [interact |-> ForceLikeDue(st),
     dwell |-> BrowseDwell(isRealVideo),
     inc |-> Increment(st).Count - st.Count,
     done |-> Increment(st).Completed]

\* the counts the state of the task of an engine step can have: the first
\* interaction, a later one, the last one
TenCounts == {0, 1, TenThreshold - 1}

NotOpened == [flow |-> "none", card |-> NoFeed, recorded |-> NoFeed,
              video |-> FALSE, followed |-> FALSE, count |-> 0,
              interact |-> FALSE, inc |-> 0, done |-> FALSE]

\* a session that has clicked some notes, each once, on a fixed feed list of
\* at most N feeds
SelInitWith(N, L) ==
    /\ feedList \in SeqsUpTo(FeedIDs, N)
    /\ \E S \in SUBSET (FeedIDs \ {""}) : \E s \in Perms(S) :
           /\ viewed = S
           /\ stats = [NewStats EXCEPT !.ViewedNotes = s, !.ClickCount = Len(s)]
    /\ selectedFeed = NoFeed
    /\ selErr = FALSE
    /\ spc = "select"
    /\ lastOpen = NotOpened
    /\ logOpens = L

SelInit == SelInitWith(MaxFeedList, FALSE)

\* no click flow is modelled
SelIdle ==
    /\ feedList = <<>>
    /\ viewed = {}
    /\ selectedFeed = NoFeed
    /\ selErr = FALSE
    /\ spc = "idle"
    /\ stats = NewStats
    /\ lastOpen = NotOpened
    /\ logOpens = FALSE

\* selectFeedForClick: an empty list is an error
selectFeedForClick ==
    /\ spc = "select"
    /\ IF Len(feedList) = 0
       THEN /\ selErr' = TRUE
            /\ selectedFeed' = NoFeed
       ELSE /\ selErr' = FALSE
            /\ selectedFeed' \in SelectFeedForClick(feedList, viewed)
    /\ spc' = "selected"
    /\ lastOpen' = NotOpened
    /\ UNCHANGED <<feedList, viewed, stats, logOpens, nonSelVars>>

\* the flow ends with nothing clicked and nothing recorded
NothingOpened ==
    /\ lastOpen' = NotOpened
    /\ UNCHANGED <<stats, viewed>>

\* the note is open: the click is recorded under feedID, and the decision o
\* of the flow is carried out
NoteOpened(flow, card, feedID, isRealVideo, followed, c, o) ==
    /\ \E like \in BOOLEAN, fav \in BOOLEAN :
          LET s1 == openNoteFromCard(stats, feedID)
          IN  stats' = IF o.interact
                       THEN forceLikeAndFavoriteInModal(s1, like, fav)
                       ELSE s1
    /\ viewed' = viewed \cup {feedID}
    /\ lastOpen' = IF logOpens
                   THEN [flow |-> flow, card |-> card, recorded |-> feedID,
                         video |-> isRealVideo, followed |-> followed,
                         count |-> c, interact |-> o.interact, inc |-> o.inc,
                         done |-> o.done]
                   ELSE lastOpen

\* the rest of clickAndViewNote: an error, a feed without id, no visible
\* card or a failed click ends the flow with nothing recorded; otherwise
\* selectCardForFeed picks the card, openNoteFromCard clicks it and records
\* the id of the feed, and the visit follows (a click that succeeds at the
\* second attempt is a click on the card selected then)
clickAndViewNote ==
    /\ spc = "selected"
    /\ Len(stats.ViewedNotes) < MaxViewed
    /\ IF selErr \/ selectedFeed = ""
       THEN NothingOpened
       ELSE \E cards \in VisibleCards :
              IF cards = <<>>
              THEN NothingOpened
              ELSE \E card \in selectCardForFeed(cards, selectedFeed),
                      clicked \in BOOLEAN :
                     IF ~clicked
                     THEN NothingOpened
                     ELSE \E followed \in BOOLEAN, isRealVideo \in BOOLEAN :
                            NoteOpened("click", card, selectedFeed,
                                       isRealVideo, followed, 0,
                                       ViewDecision(followed, isRealVideo))
    /\ selectedFeed' = NoFeed
    /\ selErr' = FALSE
    /\ spc' = "select"
    /\ UNCHANGED <<feedList, logOpens, nonSelVars>>

\* executeTenInteractionStep between two click flows, from the point where
\* findVisibleCardByFeedID has found the card of the task (id, at count c):
\* what the step does to the stats of the session
TenOpenNote(id, c) ==
    /\ spc = "select"
    /\ Len(stats.ViewedNotes) < MaxViewed
    /\ \E clicked \in BOOLEAN :
          IF ~clicked
          THEN NothingOpened
          ELSE \E isRealVideo \in BOOLEAN :
                 NoteOpened("ten", id, id, isRealVideo, FALSE, c,
                            TenDecision([NoState EXCEPT !.In = TRUE,
                                                        !.Count = c],
                                        isRealVideo))
    /\ UNCHANGED <<feedList, selectedFeed, selErr, spc, logOpens, nonSelVars>>

SelNext ==
    \/ selectFeedForClick
    \/ clickAndViewNote
    \/ \E id \in FeedIDs \ {""}, c \in TenCounts : TenOpenNote(id, c)

(***************************************************************************)
(* parseNoteURL                                                            *)
(***************************************************************************)
\* strings are sequences of characters
ExploreSep == <<"/", "e", "x", "p", "l", "o", "r", "e", "/">>

TokenSep == <<"x", "s", "e", "c", "_", "t", "o", "k", "e", "n", "=">>

\* the pieces the parts of a URL are made of
UrlAtoms == {<<"a">>, <<"?">>, <<"&">>, ExploreSep, TokenSep}

\* the strings of at most n pieces
RECURSIVE UrlParts(_)
UrlParts(n) ==
    IF n = 0 THEN {<<>>}
    ELSE UrlParts(n - 1) \cup {p \o a : p \in UrlParts(n - 1), a \in UrlAtoms}

\* strings.Index(s, sub): the 0-based index of the first occurrence, or -1
Index(s, sub) ==
    LET hits == {i \in 0..(Len(s) - Len(sub)) :
                    SubSeq(s, i + 1, i + Len(sub)) = sub}
    IN  IF hits = {} THEN 0 - 1
        ELSE CHOOSE i \in hits : \A j \in hits : i <= j

\* strings.Contains(s, sub)
Contains(s, sub) == Index(s, sub) >= 0

\* strings.Split(s, sep)[1] for a string that contains sep: what lies between
\* the first occurrence of sep and the next one after it (or the end)
SplitSecond(s, sep) ==
    LET after == SubSeq(s, Index(s, sep) + Len(sep) + 1, Len(s))
    IN  IF Contains(after, sep)
        THEN SubSeq(after, 1, Index(after, sep))
        ELSE after

\* `if idx := strings.Index(part, stop); idx > 0 { part[:idx] } else { part }`
CutAt(part, stop) ==
    IF Index(part, stop) > 0 THEN SubSeq(part, 1, Index(part, stop))
    ELSE part

parseNoteURL(urlStr) ==
    [feedID |-> IF Contains(urlStr, ExploreSep)
                THEN CutAt(SplitSecond(urlStr, ExploreSep), <<"?">>)
                ELSE <<>>,
     xsecToken |-> IF Contains(urlStr, TokenSep)
                   THEN CutAt(SplitSecond(urlStr, TokenSep), <<"&">>)
                   ELSE <<>>]

NoNote == [query |-> FALSE, id |-> <<>>, token |-> <<>>, rest |-> <<>>]

NotParsed == [done |-> FALSE, feedID |-> <<>>, xsecToken |-> <<>>]

\* /explore/<id>?xsec_token=<token>&<rest>, or /explore/<id>
URLOf(n) ==
    IF n.query
    THEN ExploreSep \o n.id \o <<"?">> \o TokenSep \o n.token \o <<"&">>
             \o n.rest
    ELSE ExploreSep \o n.id

UrlInit ==
    /\ \/ \E id \in UrlParts(MaxUrlAtoms), token \in UrlParts(MaxUrlAtoms),
             rest \in UrlParts(MaxUrlAtoms) :
               note = [query |-> TRUE, id |-> id, token |-> token,
                       rest |-> rest]
       \/ \E id \in UrlParts(MaxUrlAtoms) :
               note = [NoNote EXCEPT !.id = id]
    /\ parsed = NotParsed

\* no URL is parsed
UrlIdle ==
    /\ note = NoNote
    /\ parsed = NotParsed

ParseNoteURL ==
    /\ ~parsed.done
    /\ parsed' = [done |-> TRUE,
                  feedID |-> parseNoteURL(URLOf(note)).feedID,
                  xsecToken |-> parseNoteURL(URLOf(note)).xsecToken]
    /\ UNCHANGED <<note, nonUrlVars>>

UrlNext == ParseNoteURL

(***************************************************************************)
(* The scroll bounds: buildBrowseConfigFromArgs, NewBrowseAction and the   *)
(* scroll-count draw of browseRound                                        *)
(***************************************************************************)
\* the values a caller can pass as min_scrolls / max_scrolls: int(float64) of
\* the argument, 0 when it is absent; the flags of cmd/multi_instance are
\* plain ints as well
ScrollArgs == (-1)..MaxCfgScrolls

NoDraw == [done |-> FALSE, panic |-> FALSE, scrollCount |-> 0]

\* NewBrowseAction: a bound that is 0 takes its default, any other value is
\* kept as it is
ScrollDefaults(c) ==
    [MinScrolls |-> IF c.MinScrolls = 0 THEN DefaultMinScrollsPerRound
                    ELSE c.MinScrolls,
     MaxScrolls |-> IF c.MaxScrolls = 0 THEN DefaultMaxScrollsPerRound
                    ELSE c.MaxScrolls]

\* rand.Intn(n) panics when n <= 0 and yields a value of [0, n) otherwise
IntnPanics(n) == n <= 0

Intn(n) == 0..(n - 1)

\* the BrowseConfig buildBrowseConfigFromArgs returns for the caller's values
DrawInit ==
    /\ config \in [MinScrolls : ScrollArgs, MaxScrolls : ScrollArgs]
    /\ drawn = NoDraw
    /\ cpc = "args"

\* no configuration is followed
DrawIdle ==
    /\ config = [MinScrolls |-> 0, MaxScrolls |-> 0]
    /\ drawn = NoDraw
    /\ cpc = "idle"

\* NewBrowseAction(page, config): the defaulting; no configuration is refused
NewBrowseActionConfig ==
    /\ cpc = "args"
    /\ config' = ScrollDefaults(config)
    /\ cpc' = "action"
    /\ UNCHANGED <<drawn, nonDrawVars>>

\* browseRound: scrollCount := rand.Intn(Max - Min + 1) + Min
browseRoundDraw ==
    /\ cpc = "action"
    /\ LET n == config.MaxScrolls - config.MinScrolls + 1
       IN  IF IntnPanics(n)
           THEN drawn' = [NoDraw EXCEPT !.done = TRUE, !.panic = TRUE]
           ELSE \E k \in Intn(n) :
                  drawn' = [NoDraw EXCEPT !.done = TRUE,
                                          !.scrollCount = k + config.MinScrolls]
    /\ cpc' = "round"
    /\ UNCHANGED <<config, nonDrawVars>>

DrawNext == NewBrowseActionConfig \/ browseRoundDraw

(***************************************************************************)
(* recommendation.RunParallelBrowse                                        *)
(***************************************************************************)
\* `if instances <= 0 { instances = 3 }`
InstanceCount(n) == IF n <= 0 THEN DefaultInstances ELSE n

Slots ==
    1..(IF OrchInstances < DefaultInstances THEN DefaultInstances
        ELSE OrchInstances)

NoStats == [set |-> FALSE, ScrollCount |-> 0]

StatsOf(n) == [set |-> TRUE, ScrollCount |-> n]

\* a nil entry of the results slice
NilResult == [InstanceID |-> 0, Stats |-> NoStats, Error |-> ""]

\* &ParallelInstanceResult{InstanceID: "instance<k>"}
NewResult(k) == [InstanceID |-> k, Stats |-> NoStats, Error |-> ""]

NoReturn == [done |-> FALSE, results |-> <<>>, err |-> FALSE]

NotBrowsed == [done |-> FALSE, n |-> 0, err |-> "nil"]

\* an instance that has not authenticated and has saved no cookies
NoCookieLog == [auth |-> "none", saves |-> <<>>]

\* SavePageCookiesToPath(page, cookiePath) called at the place `at`
SavePageCookiesToPath(log, at) == [log EXCEPT !.saves = Append(@, at)]

OrchInit ==
    /\ requested \in 0..OrchInstances
    /\ mpc = "loop"
    /\ spawned = 0
    /\ opc = [i \in Slots |-> "none"]
    /\ results = [i \in 1..InstanceCount(requested) |-> NilResult]
    /\ wg = 0
    /\ ctxDone = FALSE
    /\ loginDone = FALSE
    /\ ret = NoReturn
    /\ browsed = [i \in Slots |-> NotBrowsed]
    /\ panicked = FALSE
    /\ cookieLog = [i \in Slots |-> NoCookieLog]

\* RunParallelBrowse is not running
OrchIdle ==
    /\ requested = 0
    /\ mpc = "idle"
    /\ spawned = 0
    /\ opc = [i \in Slots |-> "none"]
    /\ results = <<>>
    /\ wg = 0
    /\ ctxDone = FALSE
    /\ loginDone = FALSE
    /\ ret = NoReturn
    /\ browsed = [i \in Slots |-> NotBrowsed]
    /\ panicked = FALSE
    /\ cookieLog = [i \in Slots |-> NoCookieLog]

\* one iteration of the spawn loop: the result entry, wg.Add(1), go func
Spawn ==
    /\ ~panicked
    /\ mpc = "loop"
    /\ spawned < InstanceCount(requested)
    /\ LET k == spawned + 1
       IN  /\ results' = [results EXCEPT ![k] = NewResult(k)]
           /\ opc' = [opc EXCEPT ![k] = "start"]
    /\ wg' = wg + 1
    /\ spawned' = spawned + 1
    /\ UNCHANGED <<requested, mpc, ctxDone, loginDone, ret, browsed, panicked,
                   cookieLog,
                   nonOrchVars>>

\* the loop is over: RunParallelBrowse reaches wg.Wait()
LoopEnd ==
    /\ ~panicked
    /\ mpc = "loop"
    /\ spawned = InstanceCount(requested)
    /\ mpc' = "wait"
    /\ UNCHANGED <<requested, spawned, opc, results, wg, ctxDone, loginDone,
                   ret, browsed, panicked, cookieLog,
                   nonOrchVars>>

\* loginAction.CheckLoginStatus(ctx): `err == nil && loggedIn` starts the
\* browsing, anything else enters the login wait
CheckLoginStatus(i, loggedIn) ==
    /\ ~panicked
    /\ opc[i] = "start"
    /\ opc' = [opc EXCEPT ![i] = IF loggedIn THEN "browse" ELSE "login"]
    /\ cookieLog' = IF loggedIn
                    THEN [cookieLog EXCEPT ![i].auth = "cookies"]
                    ELSE cookieLog
    /\ UNCHANGED <<requested, mpc, spawned, results, wg, ctxDone, loginDone,
                   ret, browsed, panicked, nonOrchVars>>

LoginFailureNone(ctxErr) == ""

\* the Error of an instance whose WaitForLogin returned false
LoginFailure(ctxErr) == IF ctxErr THEN "login wait timed out" ELSE "login failed"

\* loginAction.WaitForLogin(loginCtx): true starts the browsing, false sets
\* the Error of the entry and ends the goroutine
WaitForLogin(i, ok) ==
    /\ ~panicked
    /\ opc[i] = "login"
    /\ IF ok
       THEN /\ opc' = [opc EXCEPT ![i] = "browse"]
            /\ results' = results
            /\ cookieLog' =
                   [cookieLog EXCEPT
                       ![i] = SavePageCookiesToPath([@ EXCEPT !.auth = "login"],
                                                    "login")]
       ELSE /\ opc' = [opc EXCEPT ![i] = "exit"]
            /\ results' = [results EXCEPT ![i].Error = LoginFailure(loginDone)]
            /\ cookieLog' = cookieLog
    /\ UNCHANGED <<requested, mpc, spawned, wg, ctxDone, loginDone, ret,
                   browsed, panicked, nonOrchVars>>

\* what StartBrowse can return to the goroutine: the stats with a nil error
\* (the duration has elapsed), or the stats with ctx.Err() once ctx is
\* cancelled
BrowseReturns ==
    {[done |-> TRUE, n |-> n, err |-> e] :
        n \in 0..MaxProgress,
        e \in IF ctxDone THEN {"nil", "ctx"} ELSE {"nil"}}

\* NewBrowseAction(page, config).StartBrowse(ctx) and the lines after it:
\* an error goes to res.Error and the goroutine returns, otherwise the stats
\* go to res.Stats
StartBrowseReturn(i, r) ==
    /\ ~panicked
    /\ opc[i] = "browse"
    /\ browsed' = [browsed EXCEPT ![i] = r]
    /\ results' = IF r.err # "nil"
                  THEN [results EXCEPT ![i].Error = "context canceled"]
                  ELSE [results EXCEPT ![i].Stats = StatsOf(r.n)]
    /\ cookieLog' = IF r.err # "nil"
                    THEN cookieLog
                    ELSE [cookieLog EXCEPT
                             ![i] = SavePageCookiesToPath(@, "end")]
    /\ opc' = [opc EXCEPT ![i] = "exit"]
    /\ UNCHANGED <<requested, mpc, spawned, wg, ctxDone, loginDone, ret,
                   panicked, nonOrchVars>>

\* a Must call of StartBrowse fails (the page is gone, or ctx is cancelled
\* under it) and panics; no goroutine recovers, the process ends
StartBrowsePanic(i, pageFault) ==
    /\ ~panicked
    /\ opc[i] = "browse"
    /\ pageFault \/ ctxDone
    /\ panicked' = TRUE
    /\ UNCHANGED <<requested, mpc, spawned, opc, results, wg, ctxDone,
                   loginDone, ret, browsed, cookieLog,
                   nonOrchVars>>

\* the goroutine returns: the deferred wg.Done()
GoDone(i) ==
    /\ ~panicked
    /\ opc[i] = "exit"
    /\ opc' = [opc EXCEPT ![i] = "done"]
    /\ wg' = wg - 1
    /\ UNCHANGED <<requested, mpc, spawned, results, ctxDone, loginDone, ret,
                   browsed, panicked, cookieLog,
                   nonOrchVars>>

HasSuccessAll(res) == \A i \in DOMAIN res : res[i].Stats.set

\* `hasSuccess`: some entry has Stats
HasSuccess(res) == \E i \in DOMAIN res : res[i].Stats.set

WgNoWait == TRUE

\* wg.Wait() returns when the counter is zero
WgZero == wg = 0

\* wg.Wait() and the return of RunParallelBrowse
WaitAndReturn ==
    /\ ~panicked
    /\ mpc = "wait"
    /\ WgZero
    /\ ret' = [done |-> TRUE, results |-> results, err |-> ~HasSuccess(results)]
    /\ mpc' = "returned"
    /\ UNCHANGED <<requested, spawned, opc, results, wg, ctxDone, loginDone,
                   browsed, panicked, cookieLog,
                   nonOrchVars>>

\* the caller cancels ctx; loginCtx is derived from it
CtxCancel ==
    /\ ~panicked
    /\ mpc \in {"loop", "wait"}
    /\ ~ctxDone
    /\ ctxDone' = TRUE
    /\ loginDone' = TRUE
    /\ UNCHANGED <<requested, mpc, spawned, opc, results, wg, ret, browsed,
                   panicked, cookieLog,
                   nonOrchVars>>

\* the 60 seconds of loginCtx pass
LoginTimeout ==
    /\ ~panicked
    /\ mpc \in {"loop", "wait"}
    /\ ~loginDone
    /\ loginDone' = TRUE
    /\ UNCHANGED <<requested, mpc, spawned, opc, results, wg, ctxDone, ret,
                   browsed, panicked, cookieLog,
                   nonOrchVars>>

Running == {i \in Slots : opc[i] # "none"}

OrchNext ==
    \/ Spawn
    \/ LoopEnd
    \/ \E i \in Running, loggedIn \in BOOLEAN : CheckLoginStatus(i, loggedIn)
    \/ \E i \in Running, ok \in BOOLEAN : WaitForLogin(i, ok)
    \/ \E i \in Running : \E r \in BrowseReturns : StartBrowseReturn(i, r)
    \/ \E i \in Running, pageFault \in BOOLEAN : StartBrowsePanic(i, pageFault)
    \/ \E i \in Running : GoDone(i)
    \/ WaitAndReturn
    \/ CtxCancel
    \/ LoginTimeout

(***************************************************************************)
(* Specifications                                                          *)
(***************************************************************************)
\* one engine: sessions one after the other, process crashes and restarts
Init ==
    /\ MgrInit
    /\ TenInit({1}, 1..NumFeeds, TRUE)
    /\ TimesInit(TimesFiles)
    /\ SelIdle
    /\ OrchIdle
    /\ RunIdle
    /\ UrlIdle /\ DrawIdle

Next == TenNext

Spec == Init /\ [][Next]_vars

\* the sessions of RunParallelBrowse, running concurrently, on a page that
\* always shows the target card and opens it
InitPar ==
    /\ MgrInit
    /\ TenInit(1..ParInstances, 1..ParFeeds, FALSE)
    /\ TimesInit({ListedFile})
    /\ SelIdle
    /\ OrchIdle
    /\ RunIdle
    /\ UrlIdle /\ DrawIdle

NextPar == TenNext

SpecPar == InitPar /\ [][NextPar]_vars

\* N concurrent AcquireBrowser calls, each followed by one release
TenIdle == TenInit({1}, {1}, FALSE) /\ TimesInit({ListedFile})

InitMgr == MgrInit /\ TenIdle /\ SelIdle /\ OrchIdle /\ RunIdle
           /\ UrlIdle /\ DrawIdle

NextMgr == MgrStep

SpecMgr == InitMgr /\ [][NextMgr]_vars

\* the same calls, where a caller may call its release function twice
NextMgrTwice ==
    \/ MgrStep
    \/ \E g \in Callers : ReleaseAgainLock(g)
    \/ \E g \in Callers : ReleaseAgain(g)

SpecMgrTwice == InitMgr /\ [][NextMgrTwice]_vars

\* the same calls, each followed by one release, with CloseBrowser called at
\* any moment
NextMgrClose ==
    \/ MgrStep
    \/ CloseBrowser

SpecMgrClose == InitMgr /\ [][NextMgrClose]_vars

\* the scheduler runs every goroutine that can take a step, and every
\* holder calls its release function
FairSpecMgr == SpecMgr /\ \A g \in Callers :
                   /\ WF_vars(AcquireLock(g)) /\ WF_vars(WaitLoop(g))
                   /\ WF_vars(Reacquire(g)) /\ WF_vars(TakeLease(g))
                   /\ WF_vars(ReleaseLock(g)) /\ WF_vars(Release(g))

\* the click flows and engine steps of one session on a fixed feed list,
\* from any set of notes viewed before
InitSel == MgrInit /\ TenIdle /\ SelInit /\ OrchIdle /\ RunIdle
           /\ UrlIdle /\ DrawIdle

NextSel == SelNext

SpecSel == InitSel /\ [][NextSel]_vars

\* the same session with the opened notes logged
InitStats ==
    /\ MgrInit /\ TenIdle /\ SelInitWith(StatsFeedList, TRUE)
    /\ OrchIdle /\ RunIdle /\ UrlIdle /\ DrawIdle

NextStats == SelNext

SpecStats == InitStats /\ [][NextStats]_vars

\* one call of RunParallelBrowse: the spawn loop, the goroutines of the
\* instances, the barrier and the return
InitOrch == MgrInit /\ TenIdle /\ SelIdle /\ OrchInit /\ RunIdle
            /\ UrlIdle /\ DrawIdle

NextOrch == OrchNext

SpecOrch == InitOrch /\ [][NextOrch]_vars

\* one session from NewBrowseAction to the end of StartBrowse, with or
\* without engine
InitRun ==
    /\ MgrInit
    /\ TenInit({Self}, 1..RunFeeds, TRUE)
    /\ TimesInit({NoTimesFile, ListedFile})
    /\ SelIdle
    /\ OrchIdle
    /\ RunInit
    /\ UrlIdle /\ DrawIdle

NextRun == RunNext

SpecRun == InitRun /\ [][NextRun]_vars

(***************************************************************************)
(* Properties                                                              *)
(***************************************************************************)
QueueFeeds(i) == {queue[i][n].FeedID : n \in 1..Len(queue[i])}

\* the count the state file holds for a note, a missing entry counting as 0
FileCount(file, f) ==
    IF file.k = "doc" /\ file.d[f].In THEN file.d[f].Count ELSE 0

\* C1: at any instant at most one caller holds the browser lease (it has
\* returned from AcquireBrowser and its release function has not yet cleared
\* inUse)
C1_MutualExclusion == Cardinality(Holders) <= 1

\* a caller holds the lease while another one waits on the condition variable
C1_Witness ==
    \E g, h \in Callers : gpc[g] = "holding" /\ gpc[h] = "waiting"

\* C2: under fair scheduling, with every holder calling release, every one
\* of the N AcquireBrowser calls eventually returns with the lease
C2_AllAcquire ==
    \A g \in Callers : <>(gpc[g] \in {"holding", "releasing", "done"})

\* every call got the lease and released it, although a woken waiter found
\* the lease taken again by a caller that arrived later
C2_Witness == barged /\ \A g \in Callers : gpc[g] = "done"

\* C3: every tracked item, in memory and in the state file that is loaded at
\* start-up, has Completed = true exactly if Count >= 10
C3_CompletedIffCount ==
    /\ \A i \in insts, f \in feeds :
           state[i][f].Completed <=> state[i][f].Count >= TenThreshold
    /\ \A p \in DOMAIN stateFile, f \in feeds :
           stateFile[p].k = "doc" =>
              (stateFile[p].d[f].Completed
                  <=> stateFile[p].d[f].Count >= TenThreshold)

\* a session that loaded a completed item (count 10) from the state file
C3_Witness ==
    \E i \in insts, f \in feeds :
        /\ f \in loadedDone[i]
        /\ state[i][f].Count = TenThreshold
        /\ state[i][f].Completed

\* C4: no count exceeds 10, in memory or in the state file, and no step of a
\* running session raises the count of an item that is done
C4_CountAtMostTen ==
    /\ [](\A i \in insts, f \in feeds :
             /\ state[i][f].Count <= TenThreshold
             /\ \A p \in DOMAIN stateFile :
                    stateFile[p].d[f].Count <= TenThreshold)
    /\ [][\A i \in insts, f \in feeds :
             (pc[i] # "off" /\ state'[i][f].Count > state[i][f].Count)
                 => (~state[i][f].Completed
                        /\ state[i][f].Count < TenThreshold)]_vars

\* a session works on an item that has one interaction left while another
\* item it tracks is at 10
C4_Witness ==
    \E i \in insts, f, g \in feeds :
        /\ state[i][f].Count = TenThreshold
        /\ active[i].FeedID = g
        /\ state[i][g].Count = TenThreshold - 1

\* C5: the count the state file holds for an item never decreases
C5_PersistedCountMonotone ==
    [][\A p \in DOMAIN stateFile, f \in feeds :
          FileCount(stateFile'[p], f) >= FileCount(stateFile[p], f)]_vars

\* C6: an item whose (author, id) pair is in the completed ledger reads as
\* completed with count >= 10, is not queued or active, and no interaction
\* runs on it, whatever cards are scanned
C6_LedgerIdempotent ==
    \A i \in insts, f \in feeds :
        (\E a \in {"alice", "bob", ""} : <<a, f>> \in completed[i]) =>
            /\ state[i][f].Completed
            /\ state[i][f].Count >= TenThreshold
            /\ f \notin enqueued[i]
            /\ f \notin QueueFeeds(i)
            /\ active[i].FeedID # f

\* a scan met the card of an item that is in the completed ledger
C6_Witness ==
    \E i \in insts : \E f \in scannedDone[i] :
        <<CardAuthor(f), f>> \in completed[i]

\* C7: a process crash leaves the state file absent (never written) or
\* holding a complete document
C7_CrashLeavesCompleteFile ==
    [][Crash => \A p \in DOMAIN stateFile :
                   stateFile'[p].k \in {"absent", "doc"}]_vars

\* C8: when executeTenInteractionStep has returned didInteract = true, the
\* state file holds the in-memory count of the item
C8_IncrementSavedOnReturn ==
    [][\A i \in insts :
          (pc[i] = "finish" /\ pc'[i] = "ready") =>
              FileCount(stateFile'[resolveTenFiles(i)], active[i].FeedID)
                  = state'[i][active[i].FeedID].Count]_vars

\* C9: an item whose count reached 10 in an earlier session is never queued
\* or active in a later one
C9_NoRepeatAfterCompletion ==
    \A i \in insts, f \in doneBefore :
        /\ active[i].FeedID # f
        /\ f \notin enqueued[i]
        /\ f \notin QueueFeeds(i)

\* C9 (amended): an item that the state file loaded at the start of the
\* session records as done is never queued, active or interacted with in
\* that session
C9_LoadedDoneNeverWorked ==
    \A i \in insts : \A f \in loadedDone[i] :
        /\ active[i].FeedID # f
        /\ f \notin enqueued[i]
        /\ f \notin QueueFeeds(i)
        /\ state[i][f].Count = TenThreshold

\* a scan of the session met the card of an item loaded as done
C9_Witness ==
    \E i \in insts : loadedDone[i] \cap scannedDone[i] # {}

C11_NoTargetsNoEngine ==
    \A i \in insts :
        (~forceAll /\ (timesFile[resolveTenFiles(i)].k = "absent"
                         \/ \A n \in 1..Len(timesFile[resolveTenFiles(i)].lines) :
                               timesFile[resolveTenFiles(i)].lines[n] = "")) =>
            /\ pc[i] \in {"off", "plain"}
            /\ active[i] = NoTask
            /\ queue[i] = <<>>
            /\ enqueued[i] = {}
            /\ \A f \in feeds : ~state[i][f].In /\ state[i][f].Count = 0
            /\ stateFile[resolveTenFiles(i)].k = "absent"
            /\ completedFile[resolveTenFiles(i)] = <<>>

\* a session runs without engine on an allow-list of blank lines only
C11_Witness ==
    \E i \in insts :
        /\ pc[i] = "plain"
        /\ timesFile[resolveTenFiles(i)].k = "file"
        /\ Len(timesFile[resolveTenFiles(i)].lines) = 2

\* C15: two instances whose sessions run at the same time never use the same
\* campaign files: their allow-list, ledger, state and temp file paths differ
C15_DistinctFiles ==
    \A i, j \in insts :
        (i # j /\ pc[i] # "off" /\ pc[j] # "off") =>
            resolveTenFiles(i) # resolveTenFiles(j)

\* C20: selectFeedForClick returns a feed that has not been viewed whenever
\* the list holds a feed with a non-empty id that has not been viewed; for
\* any non-empty list it returns a feed of the list without error, also when
\* every feed has been viewed
C20_PrefersUnviewed ==
    spc = "selected" =>
        /\ (\E n \in 1..Len(feedList) :
                feedList[n] # "" /\ feedList[n] \notin viewed)
              => (selectedFeed # "" /\ selectedFeed \notin viewed)
        /\ Len(feedList) > 0 =>
              (~selErr /\ \E n \in 1..Len(feedList) :
                             feedList[n] = selectedFeed)
        /\ Len(feedList) = 0 => selErr

\* every feed of a full list has been viewed, and a viewed feed is returned
\* again
C20_Witness ==
    /\ spc = "selected"
    /\ Len(feedList) = MaxFeedList
    /\ \A n \in 1..Len(feedList) : feedList[n] \in viewed
    /\ selectedFeed \in viewed

\* C12: RunParallelBrowse returns an error exactly if no entry of the
\* returned list has stats; with stats in at least one entry it returns nil
\* and the whole list
C12_ErrorIffNoStats ==
    ret.done =>
        /\ ret.err <=> (\A i \in DOMAIN ret.results :
                           ~ret.results[i].Stats.set)
        /\ (\E i \in DOMAIN ret.results : ret.results[i].Stats.set) =>
              (~ret.err /\ DOMAIN ret.results = 1..InstanceCount(requested))

\* a partial success: nil error returned, one entry with stats and one with
\* an error
C12_Witness ==
    /\ ret.done
    /\ ~ret.err
    /\ \E i, j \in DOMAIN ret.results :
          ret.results[i].Stats.set /\ ret.results[j].Error # ""

\* C13: the returned list has one entry per instance, in order, entry k
\* carrying the id instance<k> and exactly one of Stats and Error; an entry
\* with a login error beside an entry with stats comes with a nil error
C13_OneResultEach ==
    ret.done =>
        /\ DOMAIN ret.results = 1..InstanceCount(requested)
        /\ requested >= 1 => Len(ret.results) = requested
        /\ \A k \in DOMAIN ret.results :
              /\ ret.results[k].InstanceID = k
              /\ ret.results[k].Stats.set <=> ret.results[k].Error = ""
        /\ (\E i, j \in DOMAIN ret.results :
               /\ ret.results[i].Error \in {"login failed",
                                             "login wait timed out"}
               /\ ret.results[j].Stats.set) => ~ret.err

\* three instances, the second failed the login, the first and the third
\* browsed: two stats entries, one error entry, nil error
C13_Witness ==
    /\ ret.done
    /\ requested = 3
    /\ ~ret.err
    /\ ret.results[1].Stats.set /\ ret.results[1].Error = ""
    /\ ~ret.results[2].Stats.set /\ ret.results[2].Error = "login failed"
    /\ ret.results[3].Stats.set /\ ret.results[3].Error = ""

\* C14: RunParallelBrowse returns only when every goroutine it started has
\* ended, no entry changes after the return, and a step changes the entry of
\* one instance only, the one whose goroutine takes the step
C14_Barrier ==
    /\ [](ret.done =>
            /\ \A i \in 1..InstanceCount(requested) : opc[i] = "done"
            /\ results = ret.results)
    /\ [][\A i \in DOMAIN results :
             results'[i] # results[i] =>
                /\ opc[i] \in {"none", "login", "browse"}
                /\ opc'[i] # opc[i]
                /\ \A j \in DOMAIN results \ {i} : results'[j] = results[j]]_vars

\* the call returned after goroutines that ended at different points: one
\* at the login, one after browsing
C14_Witness ==
    /\ ret.done
    /\ \E i, j \in DOMAIN results :
          /\ opc[i] = "done" /\ ~browsed[i].done
          /\ opc[j] = "done" /\ browsed[j].done

\* C18: the entry of an instance whose StartBrowse returned an error after
\* some progress carries the statistics of that session
C18_PartialStatsKept ==
    \A i \in DOMAIN results :
        (opc[i] \in {"exit", "done"} /\ browsed[i].done
            /\ browsed[i].err # "nil" /\ browsed[i].n > 0) =>
                (results[i].Stats.set
                    /\ results[i].Stats.ScrollCount = browsed[i].n)

\* C16: once ctx is cancelled StartBrowse ends only by returning, with the
\* statistics accumulated so far and ctx.Err() (or nil when the deadline has
\* passed as well); a nil error is returned only past the deadline
C16_CancelReturnsStats ==
    /\ (cancelled /\ rpc \in {"returned", "panic"}) =>
          (rpc = "returned" /\ (bret.err = "ctx" \/ expired))
    /\ rpc = "returned" =>
          /\ bret.ScrollCount = statsScrolls
          /\ bret.err = "nil" => expired
          /\ bret.err = "ctx" => cancelled

\* C17: no failure of a scroll, click, open or refresh inside a round ends
\* StartBrowse; the session ends only by cancellation or at the deadline
C17_RoundFailureNotFatal ==
    ~(rpc = "panic" /\ ~cancelled
        /\ failedAt \in {"refresh", "scroll", "click"})

\* C19: a call of browseRound that returns has scrolled at least once and at
\* most scrollCount times, with or without campaign work in the round
C19_ScrollsPerRound ==
    [][(rpc \in {"ten1r", "ten2r", "click"} /\ rpc' = "top") =>
          (roundScrolls' >= 1 /\ roundScrolls' <= scrollCount)]_vars

C22_CookiesSavedTwice ==
    \A i \in Slots :
        cookieLog[i].auth = "login" =>
            /\ opc[i] = "browse" => cookieLog[i].saves = <<"login">>
            /\ browsed[i].done /\ opc[i] \in {"exit", "done"} =>
                   cookieLog[i].saves = <<"login", "end">>

(***************************************************************************)
(* One engine, with the history of its misses and abandonments             *)
(***************************************************************************)
InitHist ==
    /\ MgrInit
    /\ TenInitWith({1}, 1..HistFeeds, TRUE, TRUE)
    /\ forceAll = FALSE
    /\ TimesInit({ListedFile})
    /\ SelIdle
    /\ OrchIdle
    /\ RunIdle
    /\ UrlIdle /\ DrawIdle

NextHist == TenNext

SpecHist == InitHist /\ [][NextHist]_vars

(***************************************************************************)
(* parseNoteURL on URLs built from an id, a token and a rest               *)
(***************************************************************************)
InitUrl ==
    /\ MgrInit /\ TenIdle /\ SelIdle /\ OrchIdle /\ RunIdle /\ UrlInit
    /\ DrawIdle

NextUrl == UrlNext

SpecUrl == InitUrl /\ [][NextUrl]_vars

\* the scroll bounds of every configuration a caller can pass
InitCfg ==
    /\ MgrInit /\ TenIdle /\ SelIdle /\ OrchIdle /\ RunIdle /\ UrlIdle
    /\ DrawInit

NextCfg == DrawNext

SpecCfg == InitCfg /\ [][NextCfg]_vars

\* C23: for /explore/<id>?xsec_token=<token>&<rest> with no '?' in <id> and
\* no '&' in <token>, parseNoteURL returns (<id>, <token>); for /explore/<id>
\* without query it returns (<id>, "")
C23_ParsesIdAndToken ==
    parsed.done =>
        IF note.query
        THEN (~Contains(note.id, <<"?">>) /\ ~Contains(note.token, <<"&">>)) =>
                 /\ parsed.feedID = note.id
                 /\ parsed.xsecToken = note.token
        ELSE ~Contains(note.id, <<"?">>) =>
                 /\ parsed.feedID = note.id
                 /\ parsed.xsecToken = <<>>

IsPrefix(s, t) == Len(s) <= Len(t) /\ SubSeq(t, 1, Len(s)) = s

FeedIDsOf(q) == [n \in 1..Len(q) |-> q[n].FeedID]

\* C24: a scan puts the items it discovers behind the items already
\* queued, in the order of their cards on the page, and the item made active
\* when none is active is the first of them all, the others staying queued
\* in that order
C24_Fifo ==
    [][\A i \in insts :
         (/\ active[i] = NoTask
          /\ pc[i] = "ready" /\ pc'[i] # "off"
          /\ queue'[i] # queue[i] \/ active'[i] # NoTask) =>
             LET all == FeedIDsOf(queue[i]) \o discovered'[i]
             IN  /\ all # <<>>
                 /\ FeedIDsOf(queue'[i]) = Tail(all)
                 /\ active'[i] # NoTask => active'[i].FeedID = Head(all)]_vars

\* an item is active while an item discovered after it waits in the queue
C24_Witness ==
    \E i \in insts :
        /\ active[i] # NoTask
        /\ Len(queue[i]) >= 1
        /\ active[i].FeedID \notin QueueFeeds(i)

\* C25: the queue holds no item id twice, no completed item and not the id of
\* the active item; the enqueued set is the set of ids in the queue; at most
\* one item is active
C25_QueueWellFormed ==
    \A i \in insts :
        /\ \A m, n \in 1..Len(queue[i]) :
               queue[i][m].FeedID = queue[i][n].FeedID => m = n
        /\ \A n \in 1..Len(queue[i]) :
               /\ ~IsDone(state[i][queue[i][n].FeedID])
               /\ completedKey(queue[i][n].Author, queue[i][n].FeedID)
                      \notin completed[i]
        /\ active[i] # NoTask => active[i].FeedID \notin QueueFeeds(i)
        /\ enqueued[i] = QueueFeeds(i)
        /\ Cardinality({t \in {active[i]} : t # NoTask}) <= 1

\* one item is active while another one waits in the queue
C25_Witness ==
    \E i \in insts :
        /\ active[i] # NoTask
        /\ queue[i] # <<>>
        /\ enqueued[i] = QueueFeeds(i)
        /\ activeNotVisible[i] > 0

\* a step of the engine on the active item of i that ended without interaction
MissStep(i) == active[i] # NoTask /\ missLog'[i].n = missLog[i].n + 1

\* C26: the active item is abandoned exactly in the step that is the 6th
\* consecutive step on it without interaction, counted from its activation
C26_AbandonAtSix ==
    [][\A i \in insts :
         MissStep(i) =>
             (active'[i] = NoTask <=> missLog'[i].n = NotVisibleLimit)]_vars

\* C26, amended: the active item is abandoned, and the counter reset, exactly
\* in the step that is the 6th consecutive step without interaction after the
\* step that activated it; a miss of the activating step is not counted, so
\* this is the 7th miss in a row when the activating step missed; an
\* interaction resets the counter
C26_AbandonAtSixAfterActivation ==
    [][\A i \in insts :
         /\ activeNotVisible[i] < NotVisibleLimit
         /\ MissStep(i) =>
                /\ active'[i] = NoTask <=>
                       missLog'[i].n - (IF missLog[i].first THEN 1 ELSE 0)
                           = NotVisibleLimit
                /\ active'[i] = NoTask => activeNotVisible'[i] = 0
                /\ active'[i] # NoTask =>
                       activeNotVisible'[i] = activeNotVisible[i] + 1
         /\ (pc[i] = "finish" /\ pc'[i] = "ready") =>
                activeNotVisible'[i] = 0]_vars

\* an item was abandoned after 7 steps in a row without interaction
C26_Witness ==
    \E i \in insts :
        /\ active[i] = NoTask
        /\ missLog[i] = [n |-> NotVisibleLimit + 1, first |-> TRUE]
        /\ abandoned[i] # {}

\* C27: an item the session has abandoned is never in the queue and never
\* active again in that session
C27_AbandonedStaysOut ==
    \A i \in insts : \A f \in abandoned[i] :
        /\ f \notin QueueFeeds(i)
        /\ active[i] # NoTask => active[i].FeedID # f

\* C27, amended: the abandonment leaves the item neither active nor queued
\* and does not touch the queue; the item comes back only through a later
\* scan, made while no item is active, that meets it when it is not completed
C27_AbandonedNotRequeued ==
    [][\A i \in insts :
         /\ (MissStep(i) /\ active'[i] = NoTask) =>
                /\ active[i].FeedID \in abandoned'[i]
                /\ active[i].FeedID \notin Range(FeedIDsOf(queue'[i]))
                /\ active[i].FeedID \notin enqueued'[i]
                /\ queue'[i] = queue[i]
         /\ \A f \in abandoned[i] :
                (/\ f \notin QueueFeeds(i)
                 /\ active[i] = NoTask \/ active[i].FeedID # f
                 /\ \/ f \in Range(FeedIDsOf(queue'[i]))
                    \/ active'[i] # NoTask /\ active'[i].FeedID = f) =>
                    /\ active[i] = NoTask
                    /\ pc[i] = "ready"
                    /\ ~IsDone(state[i][f])]_vars

\* an abandoned item is the active item again
C27_Witness ==
    \E i \in insts :
        /\ active[i] # NoTask
        /\ active[i].FeedID \in abandoned[i]

\* C29: a step that opens the item does the forced like+save exactly when
\* the count of the item is 0 at that moment; with a count of 1..9 the note is
\* only browsed
C29_ForcedLikeAtCountZero ==
    \A i \in insts :
        opened[i].done =>
            /\ active[i] # NoTask
            /\ opened[i].count \in 0..(TenThreshold - 1)
            /\ state[i][active[i].FeedID].Count = opened[i].count + 1
            /\ opened[i].forced <=> opened[i].count = 0
            /\ opened[i].count \in 1..(TenThreshold - 1) => ~opened[i].forced

\* a note is opened at count 1 and only browsed
C29_Witness ==
    \E i \in insts :
        /\ opened[i].done
        /\ opened[i].count = 1
        /\ ~opened[i].forced

\* C30: once the process has started its first session, the completed file
\* only grows: no step removes a line from it
C30_LedgerAppendOnly ==
    [][runStarted =>
          \A p \in DOMAIN completedFile :
              IsPrefix(completedFile[p], completedFile'[p])]_vars

\* C28: between two consecutive not-visible outcomes for the active item the
\* feed is scrolled at least once: a not-visible outcome is never followed by
\* another one without a scroll in between
C28_ScrollBetweenMisses == missRun <= 1

\* C31: whenever a pair (author, item id) is in the completed ledger of a
\* session, the state of that item is tracked and reads as completed:
\* Completed = true and Count >= 10
C31_LedgerImpliesCompleted ==
    \A i \in insts : \A key \in completed[i] :
        /\ state[i][key[2]].In
        /\ state[i][key[2]].Completed
        /\ state[i][key[2]].Count >= TenThreshold

\* the ledger holds a pair while the session works on another item, and the
\* card of the completed item has been scanned again since
C31_Witness ==
    \E i \in insts : \E key \in completed[i] :
        /\ active[i] # NoTask
        /\ active[i].FeedID # key[2]
        /\ key[2] \in scannedDone[i]

(***************************************************************************)
(* One engine in a process whose TEN_TIMES_FORCE_ALL is on                 *)
(***************************************************************************)
\* the allow-list is missing, names the author of the notes, or names
\* somebody else
ForceTimesFiles == {NoTimesFile, ListedFile, TimesFileOf(<<"bob">>)}

InitForce ==
    /\ MgrInit
    /\ TenInitWith({1}, 1..ForceFeeds, TRUE, FALSE)
    /\ forceAll = TRUE
    /\ TimesInit(ForceTimesFiles)
    /\ SelIdle
    /\ OrchIdle
    /\ RunIdle
    /\ UrlIdle /\ DrawIdle

NextForce == TenNext

SpecForce == InitForce /\ [][NextForce]_vars

\* C32: in force-all mode a scan enqueues every visible card that is not
\* completed and not already queued, whoever its author is, whether or not
\* the author's name can be resolved, and whatever the allow-list holds
C32_ForceAllEnqueuesAll ==
    [][\A i \in insts :
          (/\ forceAll
           /\ pc[i] = "ready" /\ active[i] = NoTask
           /\ lastScan'[i] # lastScan[i] /\ lastScan'[i] # NoScan) =>
              \A f \in Range(lastScan'[i].cards) :
                  (~IsDone(state[i][f]) /\ f \notin enqueued[i]) =>
                      f \in Range(discovered'[i])]_vars

\* C33: a call of the release function clears inUse and wakes one waiter
\* when there is one (and no more than one), and a second call of the same
\* release function never leads to two holders of the lease at a time
C33_ReleaseIdempotentSafe ==
    /\ [][\A g \in Callers :
             (gpc[g] \in {"releasing", "again"} /\ gpc'[g] # gpc[g]) =>
                LET waiting == {w \in Callers : gpc[w] = "waiting"}
                    woken == {w \in waiting : gpc'[w] = "woken"}
                IN  /\ ~inUse'
                    /\ Cardinality(woken) = IF waiting = {} THEN 0 ELSE 1]_vars
    /\ [](\A g, h \in Holders : g = h)

\* C35: with CloseBrowser called at any moment, also while a lease is held,
\* no two callers are between the return of their AcquireBrowser and their
\* release at the same time
C35_ExclusionWithClose ==
    \A g, h \in Callers :
        (gpc[g] \in {"holding", "releasing"}
            /\ gpc[h] \in {"holding", "releasing"}) => g = h

(***************************************************************************)
(* The notes a session opens and its stats                                 *)
(***************************************************************************)

C36_RecordedIsClicked ==
    lastOpen.flow # "none" =>
        /\ lastOpen.recorded = lastOpen.card
        /\ lastOpen.recorded \in viewed

\* C39: ClickCount is the length of ViewedNotes, the viewed set is the set of
\* the ids in ViewedNotes, and neither likes nor saves outnumber the clicks
C39_StatsConsistent ==
    /\ stats.ClickCount = Len(stats.ViewedNotes)
    /\ viewed = Range(stats.ViewedNotes)
    /\ stats.LikeCount <= stats.ClickCount
    /\ stats.FavoriteCount <= stats.ClickCount

\* a note was opened a second time, and liked but not saved
C39_Witness ==
    /\ Len(stats.ViewedNotes) = 2
    /\ stats.ViewedNotes[1] = stats.ViewedNotes[2]
    /\ stats.LikeCount = 1
    /\ stats.FavoriteCount = 0

(***************************************************************************)
(* The counts one call of processTenTimesIfNeeded changes                  *)
(***************************************************************************)
\* the positions of an engine inside or between calls of
\* processTenTimesIfNeeded (the saveState steps belong to the call)
CallPcs == {"ready", "write", "writing", "rename", "finish"}

\* C37: a step of a call of processTenTimesIfNeeded changes the count of at
\* most one item, by +1, and only in the step that opened the card of that
\* item, which is the active item; all other counts stay as they are
C37_OneCountPerCall ==
    [][\A i \in insts :
          (pc[i] \in CallPcs /\ pc'[i] \in CallPcs) =>
              LET changed == {f \in feeds :
                                state'[i][f].Count # state[i][f].Count}
              IN  /\ Cardinality(changed) <= 1
                  /\ \A f \in changed :
                        /\ state'[i][f].Count = state[i][f].Count + 1
                        /\ pc[i] = "ready"
                        /\ opened'[i].done
                        /\ active'[i] # NoTask
                        /\ active'[i].FeedID = f]_vars

\* the card of the active item was opened and counted while another item is
\* tracked with a count of its own
C37_Witness ==
    \E i \in insts : \E g \in feeds :
        /\ pc[i] = "write"
        /\ opened[i].done
        /\ active[i] # NoTask
        /\ g # active[i].FeedID
        /\ state[i][g].In
        /\ state[i][g].Count > 0
        /\ state[i][active[i].FeedID].Count = opened[i].count + 1

(***************************************************************************)
(* The scroll-count draw                                                   *)
(***************************************************************************)
\* C38: for every configuration NewBrowseAction accepts, MinScrolls <=
\* MaxScrolls after the defaulting, the draw of browseRound does not panic
\* and its value lies in [MinScrolls, MaxScrolls]
C38_DrawInRange ==
    /\ cpc \in {"action", "round"} => config.MinScrolls <= config.MaxScrolls
    /\ drawn.done =>
          /\ ~drawn.panic
          /\ config.MinScrolls <= drawn.scrollCount
          /\ drawn.scrollCount <= config.MaxScrolls

====
